---- MODULE Spec2Model ----
(***************************************************************************)
(* Backtest execution engine of PyQuantAlpha: bar alignment (feed.py) and  *)
(* the broker's order lifecycle and matching (broker.py, models.py).       *)
(*                                                                         *)
(* Timestamps are milliseconds.  Prices are integers; money is exact       *)
(* rational arithmetic (see the broker section), so IEEE rounding of the   *)
(* Python floats is not modelled.                                          *)
(***************************************************************************)
EXTENDS Integers, Sequences, FiniteSets, TLC

VARIABLES
    \* ---- TimeframeAlignedFeed (feed.py:168-258)
    base_data,          \* _base_data: symbol -> ascending list of bars
    other_data,         \* _other_data: interval -> symbol -> ascending list of bars
    last_seen_other,    \* local of _align_timeframes: interval -> symbol -> bar
    tf_aligned,         \* TimeframeAlignedFeed._aligned_data
    \* ---- MultiFeed (feed.py:87-165)
    feeds,              \* _feeds: symbol -> list of bars (SingleFeed.bars)
    last_valid_bars,    \* local of _align_data: symbol -> bar
    mf_aligned,         \* MultiFeed._aligned_data
    mf_k,               \* timestamps of sorted_timestamps already handled
    \* ---- BacktestBroker (broker.py:28-450)
    config,             \* _config: BacktestConfig
    cash,               \* _cash, in units of 1/MoneyScale
    positions,          \* _positions: symbol -> Position
    orders,             \* every Order handed to the broker, by index: _orders,
                        \* followed by the children given to add_child_order
    active_orders,      \* _active_orders: list of indexes into orders
    pending_child_orders, \* _pending_child_orders: list of indexes into orders
    trade_counter,      \* _trade_counter
    trades,             \* the trades returned by process_orders so far
    status_log,         \* per order, every value assigned to order.status
    clock,              \* number of process_orders calls so far
    last_call,          \* the arguments of the latest process_orders call
    last_cancel,        \* the argument and return value of the latest
                        \* cancel_order call whose result was observed
    \* ---- Position (models.py:137-229), on its own
    position,           \* a Position object
    last_update,        \* the latest Position.update call: the position
                        \* before, the arguments and the pnl returned
    \* ---- BacktestEngine (engine.py:45-299)
    run_pc,             \* where run() stands: "idle", "match", "strategy",
                        \* "returned", "raised"
    run_data,           \* the feed of the run in progress: list of snapshots
    strategy,           \* _strategy: the behaviour of the loaded strategy
    on_progress,        \* the on_progress argument of run(): a task or None
    bar_index,          \* snapshots whose loop body has been completed
    current_timestamp,  \* _current_timestamp
    equity_curve,       \* equity_curve
    hook_log,           \* every call of a strategy hook, in order
    run_result,         \* what run() returned or raised
    run_log,            \* the runs this engine instance has finished
    bar_history,        \* _bar_history
    last_query,         \* the latest get_bars / get_bar call of the strategy:
                        \* its arguments and what it returned
    \* ---- BacktestManager (manager.py:24-204)
    tasks,              \* tasks: the registered task ids
    queue,              \* per task, its asyncio.Queue
    loop_ready,         \* callbacks scheduled on the event loop, in order
    task_pc,            \* per task, where _run_task stands
    stream_pc,          \* per stream_events call, its task and where it stands
    emitted,            \* per task, every event ever put on its queue
    yielded             \* per stream_events call, the events it yielded

feedVars == <<base_data, other_data, last_seen_other, tf_aligned,
              feeds, last_valid_bars, mf_aligned, mf_k>>

brokerVars == <<config, cash, positions, orders, active_orders,
                pending_child_orders, trade_counter, trades, status_log, clock,
                last_call, last_cancel>>

positionVars == <<position, last_update>>

engineVars == <<run_pc, run_data, strategy, on_progress, bar_index,
                current_timestamp, equity_curve, hook_log, run_result, run_log,
                bar_history, last_query>>

managerVars == <<tasks, queue, loop_ready, task_pc, stream_pc, emitted, yielded>>

vars == <<feedVars, brokerVars, positionVars, engineVars, managerVars>>

\* Python None where a Bar is expected
NoBar == [tf |-> "None", symbol |-> "None", timestamp |-> -1]

\* process_orders(bar, symbol=None)
NoSymbol == "None"
\* Position(symbol): quantity 0.0, avg_price 0.0 (avg_price as a fraction n/d)
NewPosition == [quantity |-> 0, avg_price |-> [n |-> 0, d |-> 1]]
\* last_update before the first Position.update call
NoUpdate == [before |-> NewPosition, delta_quantity |-> 0, price |-> 0,
             pnl |-> [n |-> 0, d |-> 1], calls |-> 0]
PositionIdle == position = NewPosition /\ last_update = NoUpdate
\* on_progress=None, and the task of an event that belongs to none
NoTask == 0
\* _strategy = None
NoStrategy == [loaded |-> FALSE]
\* run() has neither returned nor raised
NoResult == [kind |-> "none"]
\* last_query before the first get_bars / get_bar call
NoQuery == [api |-> "none"]
\* a BacktestEngine on which run() was never called
EngineIdle ==
    /\ run_pc = "idle"
    /\ run_data = <<>>
    /\ strategy = NoStrategy
    /\ on_progress = NoTask
    /\ bar_index = 0
    /\ current_timestamp = 0
    /\ equity_curve = <<>>
    /\ hook_log = <<>>
    /\ run_result = NoResult
    /\ run_log = <<>>
    /\ bar_history = <<>>
    /\ last_query = NoQuery
\* BacktestManager.__new__: no task
ManagerIdle ==
    /\ tasks = {}
    /\ queue = <<>>
    /\ loop_ready = <<>>
    /\ task_pc = <<>>
    /\ stream_pc = <<>>
    /\ emitted = <<>>
    /\ yielded = <<>>
\* last_cancel before the first observed cancel_order call
NoCancel == [order |-> 0, status |-> "NONE", ret |-> FALSE, calls |-> 0]
\* the bar of last_call before the first process_orders call
NoCallBar == [open |-> 0, high |-> 0, low |-> 0, close |-> 0, timestamp |-> -1]

\* ------------------------------------------------------------------ bounds
MaxTick == 3            \* bar timestamps are 0..MaxTick minutes
MaxBaseBars == 2        \* bars in the base feed, all symbols together
MaxOtherBars == 2       \* bars in the higher-timeframe feeds, all together
MaxFeedBars == 3        \* bars per symbol handed to MultiFeed
MaxOrders == 2          \* orders submitted to the broker
MaxCalls == 2           \* process_orders calls
MaxOps == 3             \* submit_order and process_orders calls together;
                        \* cancel_order is taken while one of them can follow
MaxCancels == 2         \* cancel_order calls whose return value is observed

\* ------------------------------------------------------------- feed inputs
FeedSymbols == {"BTCUSDT", "ETHUSDT"}
OtherIntervals == {"1m", "3m"}

\* binance.py INTERVAL_MS; "1M" (2592000000 ms) is left out, it exceeds the
\* 32-bit integers of the model checker.
INTERVAL_MS ==
    [i \in {"1m", "3m", "5m", "15m", "30m", "1h", "2h", "4h", "6h", "8h",
            "12h", "1d", "3d", "1w"} |->
        CASE i = "1m"  -> 60 * 1000
          [] i = "3m"  -> 3 * 60 * 1000
          [] i = "5m"  -> 5 * 60 * 1000
          [] i = "15m" -> 15 * 60 * 1000
          [] i = "30m" -> 30 * 60 * 1000
          [] i = "1h"  -> 60 * 60 * 1000
          [] i = "2h"  -> 2 * 60 * 60 * 1000
          [] i = "4h"  -> 4 * 60 * 60 * 1000
          [] i = "6h"  -> 6 * 60 * 60 * 1000
          [] i = "8h"  -> 8 * 60 * 60 * 1000
          [] i = "12h" -> 12 * 60 * 60 * 1000
          [] i = "1d"  -> 24 * 60 * 60 * 1000
          [] i = "3d"  -> 3 * 24 * 60 * 60 * 1000
          [] OTHER     -> 7 * 24 * 60 * 60 * 1000]

\* INTERVAL_MS.get(interval, 0)
IntervalMsGet(interval) ==
    IF interval \in DOMAIN INTERVAL_MS THEN INTERVAL_MS[interval] ELSE 0

Timestamps == {t * INTERVAL_MS["1m"] : t \in 0..MaxTick}

\* A bar: tf is the list it belongs to ("base" or an interval), so two bars
\* of different lists are different objects even at the same timestamp.
MkBar(tf, sym, ts) == [tf |-> tf, symbol |-> sym, timestamp |-> ts]

SetMin(S) == CHOOSE x \in S : \A y \in S : x <= y
SetMax(S) == CHOOSE x \in S : \A y \in S : y <= x

\* sorted(set): the ascending sequence of a finite set of integers
RECURSIVE Sorted(_)
Sorted(S) == IF S = {} THEN <<>> ELSE <<SetMin(S)>> \o Sorted(S \ {SetMin(S)})

Range(s) == {s[i] : i \in 1..Len(s)}

\* The ascending bar list of (tf, sym) drawn from a set of slots <<tf, sym, ts>>
BarList(slots, tf, sym) ==
    LET ts == Sorted({sl[3] : sl \in {x \in slots : x[1] = tf /\ x[2] = sym}})
    IN  [i \in 1..Len(ts) |-> MkBar(tf, sym, ts[i])]

SubsetsUpTo(S, n) == {X \in SUBSET S : Cardinality(X) <= n}

\* ------------------------------------------------- TimeframeAlignedFeed
\* main_timeline = sorted(set.union(*ts_sets))
main_timeline ==
    Sorted(UNION {{b.timestamp : b \in Range(base_data[s])} : s \in DOMAIN base_data})

\* base_map[sym].get(ts)
BaseMapGet(sym, ts) ==
    LET hits == {i \in 1..Len(base_data[sym]) : base_data[sym][i].timestamp = ts}
    IN  IF hits = {} THEN NoBar ELSE base_data[sym][SetMax(hits)]

\* the "closed" test of the scan: b.timestamp + interval_ms <= ts
IsClosedLookahead(b, interval_ms, ts) == b.timestamp <= ts
IsClosed(b, interval_ms, ts) == b.timestamp + interval_ms <= ts

\* for b in bars: if closed: current_match = b  else: break
\* i is the index the scan is at, match the value of current_match so far.
RECURSIVE ScanBars(_, _, _, _, _)
ScanBars(bars, i, interval_ms, ts, match) ==
    IF i > Len(bars) THEN match
    ELSE IF IsClosed(bars[i], interval_ms, ts)
         THEN ScanBars(bars, i + 1, interval_ms, ts, bars[i])
         ELSE match

CurrentMatchFirst(bars, interval_ms, ts) ==
    IF Len(bars) > 0 /\ IsClosed(bars[1], interval_ms, ts) THEN bars[1] ELSE NoBar
CurrentMatch(bars, interval_ms, ts) == ScanBars(bars, 1, interval_ms, ts, NoBar)

\* last_seen_other[interval] after the inner loop over symbol_dict.items()
SeenAfter(seen, interval, ts) ==
    LET symbol_dict == other_data[interval]
        hit == {sym \in DOMAIN symbol_dict :
                   CurrentMatch(symbol_dict[sym], IntervalMsGet(interval), ts) # NoBar}
    IN  [sym \in DOMAIN seen \cup hit |->
            IF sym \in hit
            THEN CurrentMatch(symbol_dict[sym], IntervalMsGet(interval), ts)
            ELSE seen[sym]]

EmptyMap == [x \in {} |-> NoBar]

\* step_data["base"] = base_slice if len > 1 else its only bar, else None
BaseEntry(base_slice) ==
    [shape |-> IF Cardinality(DOMAIN base_slice) > 1 THEN "mapping"
               ELSE IF DOMAIN base_slice # {} THEN "bar" ELSE "none",
     bars  |-> base_slice]

\* one iteration of "for ts in main_timeline"
AlignTimeframesStep ==
    /\ Len(tf_aligned) < Len(main_timeline)
    /\ LET ts == main_timeline[Len(tf_aligned) + 1]
           base_slice == [sym \in {s \in DOMAIN base_data : BaseMapGet(s, ts) # NoBar}
                             |-> BaseMapGet(sym, ts)]
           seen == [i \in DOMAIN last_seen_other \cup DOMAIN other_data |->
                       IF i \in DOMAIN other_data
                       THEN SeenAfter(IF i \in DOMAIN last_seen_other
                                      THEN last_seen_other[i] ELSE EmptyMap, i, ts)
                       ELSE last_seen_other[i]]
           exposed == {i \in DOMAIN other_data : DOMAIN seen[i] # {}}
           step_data == [ts    |-> ts,
                         base  |-> BaseEntry(base_slice),
                         other |-> [i \in exposed |-> seen[i]]]
       IN  /\ last_seen_other' = seen
           /\ tf_aligned' = Append(tf_aligned, step_data)
    /\ UNCHANGED <<base_data, other_data, feeds, last_valid_bars, mf_aligned, mf_k>>
    /\ UNCHANGED <<brokerVars, positionVars, engineVars, managerVars>>

\* no broker in use
BrokerIdle ==
    /\ config = [initial_capital |-> 0, commission_rate |-> 0, slippage |-> 0]
    /\ cash = 0
    /\ positions = <<>>
    /\ orders = <<>>
    /\ active_orders = <<>>
    /\ pending_child_orders = <<>>
    /\ trade_counter = 0
    /\ trades = <<>>
    /\ status_log = <<>>
    /\ clock = 0
    /\ last_call = [symbol |-> NoSymbol, bar |-> NoCallBar]
    /\ last_cancel = NoCancel
    /\ PositionIdle
    /\ EngineIdle
    /\ ManagerIdle

\* TimeframeAlignedFeed.__init__ with bounded inputs: one higher timeframe
\* dictionary per interval of OtherIntervals, lists ascending by timestamp.
InitTF ==
    /\ \E bs \in SubsetsUpTo({"base"} \X FeedSymbols \X Timestamps, MaxBaseBars) :
          base_data = [s \in FeedSymbols |-> BarList(bs, "base", s)]
    /\ \E os \in SubsetsUpTo(OtherIntervals \X FeedSymbols \X Timestamps, MaxOtherBars) :
          other_data = [i \in OtherIntervals |->
                           [s \in FeedSymbols |-> BarList(os, i, s)]]
    /\ last_seen_other = EmptyMap
    /\ tf_aligned = <<>>
    /\ feeds = EmptyMap
    /\ last_valid_bars = EmptyMap
    /\ mf_aligned = <<>>
    /\ mf_k = 0
    /\ BrokerIdle

SpecTF == InitTF /\ [][AlignTimeframesStep]_vars

\* ------------------------------------------------------------- MultiFeed
\* sorted_timestamps = sorted(set.union(*timestamp_sets))
sorted_timestamps ==
    Sorted(UNION {{b.timestamp : b \in Range(feeds[s])} : s \in DOMAIN feeds})

\* bar_maps[symbol].get(ts): the dict comprehension keeps the last bar of a
\* timestamp
BarMapsGet(symbol, ts) ==
    LET hits == {i \in 1..Len(feeds[symbol]) : feeds[symbol][i].timestamp = ts}
    IN  IF hits = {} THEN NoBar ELSE feeds[symbol][SetMax(hits)]

\* the elif branch: forward fill from the cache
ForwardFillDropped(cache, symbol) == NoBar
ForwardFill(cache, symbol) ==
    IF symbol \in DOMAIN cache THEN cache[symbol] ELSE NoBar

\* one iteration of "for ts in sorted_timestamps"
AlignDataStep ==
    /\ mf_k < Len(sorted_timestamps)
    /\ LET ts == sorted_timestamps[mf_k + 1]
           fresh == {s \in DOMAIN feeds : BarMapsGet(s, ts) # NoBar}
           cache == [s \in DOMAIN last_valid_bars \cup fresh |->
                        IF s \in fresh THEN BarMapsGet(s, ts) ELSE last_valid_bars[s]]
           filled == {s \in DOMAIN feeds \ fresh :
                         ForwardFill(last_valid_bars, s) # NoBar}
           slice_data == [s \in fresh \cup filled |->
                             IF s \in fresh THEN BarMapsGet(s, ts)
                             ELSE ForwardFill(last_valid_bars, s)]
       IN  /\ last_valid_bars' = cache
           /\ mf_aligned' = IF DOMAIN slice_data # {}
                            THEN Append(mf_aligned, [ts |-> ts, bars |-> slice_data])
                            ELSE mf_aligned
           /\ mf_k' = mf_k + 1
    /\ UNCHANGED <<base_data, other_data, last_seen_other, tf_aligned, feeds>>
    /\ UNCHANGED <<brokerVars, positionVars, engineVars, managerVars>>

\* Lists of at most n distinct timestamps, in any order
TsSeqs(n) ==
    {q \in UNION {[1..m -> Timestamps] : m \in 0..n} :
        \A i, j \in 1..Len(q) : i # j => q[i] # q[j]}

\* MultiFeed.__init__ with bounded inputs
InitMF ==
    /\ \E f \in [FeedSymbols -> TsSeqs(MaxFeedBars)] :
          feeds = [s \in FeedSymbols |->
                      [i \in 1..Len(f[s]) |-> MkBar("base", s, f[s][i])]]
    /\ last_valid_bars = EmptyMap
    /\ mf_aligned = <<>>
    /\ mf_k = 0
    /\ base_data = EmptyMap
    /\ other_data = EmptyMap
    /\ last_seen_other = EmptyMap
    /\ tf_aligned = <<>>
    /\ BrokerIdle

SpecMF == InitMF /\ [][AlignDataStep]_vars

\* --------------------------------------------------------- BacktestBroker
\* Rates (commission_rate, slippage) are multiples of 1/RateDen.  A fill price
\* is held in units of 1/RateDen (PriceScale) and money (cash, fee) in units of
\* 1/RateDen^2 (MoneyScale), which makes close +- close * slippage and
\* fill_price * quantity * commission_rate exact integers.
RateDen == 10
PriceScale == RateDen
MoneyScale == RateDen * RateDen

Symbols == FeedSymbols
Prices == {1, 2}                \* bar and order prices, in currency units
Quantities == {1, 2}            \* order.quantity
Rates == {1}                    \* 0.1
InitialCapital == 3             \* config.initial_capital, in currency units
NoPrice == -1                   \* Order.price / trigger_price is None
NoFill == -1                    \* _try_match returned None
NoId == 0                       \* Order.parent_id / oco_id is None
Infinity == 1000000             \* float('inf'), above every price

BACKTEST_INSUFFICIENT_FUNDS == "BACKTEST_INSUFFICIENT_FUNDS"

Min(a, b) == IF a <= b THEN a ELSE b
Max(a, b) == IF a >= b THEN a ELSE b
Abs(a) == IF a < 0 THEN -a ELSE a

RECURSIVE GCD(_, _)
GCD(a, b) == IF b = 0 THEN a ELSE GCD(b, a % b)

\* the exact value n/d of a float, in lowest terms with d > 0
Rat(n, d) ==
    LET g == GCD(Abs(n), Abs(d))
        sg == IF d < 0 THEN -1 ELSE 1
    IN  IF n = 0 THEN [n |-> 0, d |-> 1]
        ELSE [n |-> sg * (n \div g), d |-> sg * (d \div g)]
RatInt(k) == [n |-> k, d |-> 1]

\* Bars of the matching pass: low <= open, close <= high
OHLC ==
    {b \in [open : Prices, high : Prices, low : Prices, close : Prices] :
        /\ b.low <= b.open /\ b.open <= b.high
        /\ b.low <= b.close /\ b.close <= b.high}
OHLCBar(b, ts) ==
    [open |-> b.open, high |-> b.high, low |-> b.low, close |-> b.close,
     timestamp |-> ts]

\* Order(...) as built by BacktestEngine._api_order: MARKET without prices,
\* LIMIT with price, STOP with trigger_price, STOP_LIMIT with both
OrderShapes ==
    [order_type : {"MARKET"}, price : {NoPrice}, trigger_price : {NoPrice}]
    \cup [order_type : {"LIMIT"}, price : Prices, trigger_price : {NoPrice}]
    \cup [order_type : {"STOP"}, price : {NoPrice}, trigger_price : Prices]
    \cup [order_type : {"STOP_LIMIT"}, price : Prices, trigger_price : Prices]

NewOrder(id, symbol, side, shape, quantity, created_at) ==
    [id |-> id, symbol |-> symbol, side |-> side,
     order_type |-> shape.order_type, quantity |-> quantity,
     price |-> shape.price, trigger_price |-> shape.trigger_price,
     created_at |-> created_at, status |-> "CREATED",
     filled_avg_price |-> 0, filled_quantity |-> 0, fee |-> 0,
     error_msg |-> "", triggered |-> FALSE,
     parent_id |-> NoId, oco_id |-> NoId,
     trail_amount |-> NoPrice, trail_percent |-> NoPrice,
     highest_price |-> 0, lowest_price |-> Infinity]

\* float thresholds of Position.update.  snap is twice the threshold 1e-10
\* expressed in the unit the quantities are counted in, which makes the two
\* comparisons exact on integers.
AboveSnap(q, snap) == 2 * Abs(q) > snap         \* abs(quantity) > 1e-10
BelowSnap(q, snap) == 2 * Abs(q) < snap         \* abs(quantity) < 1e-10
\* the broker's quantities are whole units: 2e-10 units lies below 1
WholeSnap == 1
\* the stand-alone Position counts quantities in units of 0.5e-10
DustSnap == 4

\* the pnl of the closing branch of Position.update: close_qty * (price -
\* avg_price) for a long, close_qty * (avg_price - price) for a short
ClosePnlGross(q, avg, close_qty, price) == RatInt(close_qty * price)
ClosePnl(q, avg, close_qty, price) ==
    IF q > 0
    THEN Rat(close_qty * (price * avg.d - avg.n), avg.d)
    ELSE Rat(close_qty * (avg.n - price * avg.d), avg.d)

\* Position.update(delta_quantity, price) -> pnl
PositionUpdateNoReset(pos, delta_quantity, price, snap) ==
    LET q == pos.quantity
        avg == pos.avg_price
        nq == q + delta_quantity
        same == (q > 0 /\ delta_quantity > 0) \/ (q < 0 /\ delta_quantity < 0)
        close_qty == Min(Abs(q), Abs(delta_quantity))
        \* total_cost = abs(quantity) * avg_price + abs(delta_quantity) * price
        total_cost == Rat(Abs(q) * avg.n + Abs(delta_quantity) * price * avg.d, avg.d)
        pnl == IF q = 0 \/ same THEN RatInt(0)
               ELSE ClosePnl(q, avg, close_qty, price)
        navg == IF q = 0 THEN RatInt(price)
                ELSE IF same
                     THEN IF AboveSnap(nq, snap)
                          THEN Rat(total_cost.n, total_cost.d * Abs(nq))
                          ELSE avg
                     ELSE IF Abs(delta_quantity) > close_qty THEN RatInt(price)
                          ELSE avg
    IN  [pos |-> IF BelowSnap(nq, snap) THEN [quantity |-> 0, avg_price |-> navg]
                 ELSE [quantity |-> nq, avg_price |-> navg],
         pnl |-> pnl]
PositionUpdateKeepAvg(pos, delta_quantity, price, snap) ==
    LET q == pos.quantity
        avg == pos.avg_price
        nq == q + delta_quantity
        same == (q > 0 /\ delta_quantity > 0) \/ (q < 0 /\ delta_quantity < 0)
        close_qty == Min(Abs(q), Abs(delta_quantity))
        \* total_cost = abs(quantity) * avg_price + abs(delta_quantity) * price
        total_cost == Rat(Abs(q) * avg.n + Abs(delta_quantity) * price * avg.d, avg.d)
        pnl == IF q = 0 \/ same THEN RatInt(0)
               ELSE ClosePnl(q, avg, close_qty, price)
        navg == IF q = 0 THEN RatInt(price)
                ELSE IF same
                     THEN IF AboveSnap(nq, snap)
                          THEN Rat(total_cost.n, total_cost.d * Abs(nq))
                          ELSE avg
                     ELSE avg
    IN  [pos |-> IF BelowSnap(nq, snap) THEN NewPosition
                 ELSE [quantity |-> nq, avg_price |-> navg],
         pnl |-> pnl]
PositionUpdateLastPrice(pos, delta_quantity, price, snap) ==
    LET q == pos.quantity
        avg == pos.avg_price
        nq == q + delta_quantity
        same == (q > 0 /\ delta_quantity > 0) \/ (q < 0 /\ delta_quantity < 0)
        close_qty == Min(Abs(q), Abs(delta_quantity))
        \* total_cost = abs(quantity) * avg_price + abs(delta_quantity) * price
        total_cost == Rat(Abs(q) * avg.n + Abs(delta_quantity) * price * avg.d, avg.d)
        pnl == IF q = 0 \/ same THEN RatInt(0)
               ELSE ClosePnl(q, avg, close_qty, price)
        navg == IF q = 0 THEN RatInt(price)
                ELSE IF same
                     THEN RatInt(price)
                     ELSE IF Abs(delta_quantity) > close_qty THEN RatInt(price)
                          ELSE avg
    IN  [pos |-> IF BelowSnap(nq, snap) THEN NewPosition
                 ELSE [quantity |-> nq, avg_price |-> navg],
         pnl |-> pnl]
PositionUpdate(pos, delta_quantity, price, snap) ==
    LET q == pos.quantity
        avg == pos.avg_price
        nq == q + delta_quantity
        same == (q > 0 /\ delta_quantity > 0) \/ (q < 0 /\ delta_quantity < 0)
        close_qty == Min(Abs(q), Abs(delta_quantity))
        \* total_cost = abs(quantity) * avg_price + abs(delta_quantity) * price
        total_cost == Rat(Abs(q) * avg.n + Abs(delta_quantity) * price * avg.d, avg.d)
        pnl == IF q = 0 \/ same THEN RatInt(0)
               ELSE ClosePnl(q, avg, close_qty, price)
        navg == IF q = 0 THEN RatInt(price)
                ELSE IF same
                     THEN IF AboveSnap(nq, snap)
                          THEN Rat(total_cost.n, total_cost.d * Abs(nq))
                          ELSE avg
                     ELSE IF Abs(delta_quantity) > close_qty THEN RatInt(price)
                          ELSE avg
    IN  [pos |-> IF BelowSnap(nq, snap) THEN NewPosition
                 ELSE [quantity |-> nq, avg_price |-> navg],
         pnl |-> pnl]

\* "position and position.quantity > 0" for self._positions.get(symbol)
HasLong(pp, symbol) == symbol \in DOMAIN pp /\ pp[symbol].quantity > 0

\* Python truth value of an Optional[float]
Truthy(x) == x # NoPrice /\ x # 0

\* ref_price = order.price or order.trigger_price or 0
RefPriceTriggerFirst(order) ==
    IF Truthy(order.trigger_price) THEN order.trigger_price
    ELSE IF Truthy(order.price) THEN order.price ELSE 0
RefPrice(order) ==
    IF Truthy(order.price) THEN order.price
    ELSE IF Truthy(order.trigger_price) THEN order.trigger_price ELSE 0

\* _validate_order: TRUE iff the order passes the pre-trade check
ValidateOrderAlwaysPass(order) == TRUE
ValidateOrder(order) ==
    LET ref_price == RefPrice(order)
        estimated_cost == ref_price * order.quantity * MoneyScale
        fee == ref_price * order.quantity * RateDen * config.commission_rate
    IN  IF ref_price = 0 THEN TRUE
        ELSE IF order.side = "BUY" THEN ~(estimated_cost + fee > cash)
        ELSE IF HasLong(positions, order.symbol) THEN TRUE
        ELSE ~(estimated_cost + fee > cash)

\* submit_order(order) for a freshly built order
SubmitOrder ==
    /\ Len(orders) < MaxOrders
    /\ Len(orders) + clock < MaxOps
    /\ \E symbol \in Symbols, side \in {"BUY", "SELL"}, shape \in OrderShapes,
          quantity \in Quantities :
          LET id == Len(orders) + 1
              order == NewOrder(id, symbol, side, shape, quantity, clock)
              ok == ValidateOrder(order)
              final == IF ok THEN [order EXCEPT !.status = "ACCEPTED"]
                       ELSE [order EXCEPT !.status = "REJECTED",
                                          !.error_msg = BACKTEST_INSUFFICIENT_FUNDS]
          IN  /\ orders' = Append(orders, final)
              /\ status_log' = Append(status_log,
                                      <<"CREATED", "SUBMITTED", final.status>>)
              /\ active_orders' = IF ok THEN Append(active_orders, id)
                                  ELSE active_orders
    /\ UNCHANGED <<config, cash, positions, pending_child_orders, trade_counter,
                   trades, clock, last_call, last_cancel>>
    /\ UNCHANGED <<feedVars, positionVars, engineVars, managerVars>>

\* list.remove(x) for a list without duplicates
SeqRemove(q, x) == SelectSeq(q, LAMBDA e : e # x)

\* cancel_order(order) for any order of the log
CancelOrderUnchecked ==
    /\ Len(orders) + clock < MaxOps
    /\ \E id \in 1..Len(orders) :
          /\ orders' = [orders EXCEPT ![id].status = "CANCELED"]
          /\ status_log' = [status_log EXCEPT ![id] = Append(@, "CANCELED")]
          /\ active_orders' = SeqRemove(active_orders, id)
    /\ UNCHANGED <<config, cash, positions, pending_child_orders, trade_counter,
                   trades, clock, last_call, last_cancel>>
    /\ UNCHANGED <<feedVars, positionVars, engineVars, managerVars>>
CancelOrder ==
    /\ Len(orders) + clock < MaxOps
    /\ \E id \in 1..Len(orders) :
          LET found == id \in Range(active_orders)
          IN  /\ orders' = IF found THEN [orders EXCEPT ![id].status = "CANCELED"]
                           ELSE orders
              /\ status_log' = IF found
                               THEN [status_log EXCEPT ![id] = Append(@, "CANCELED")]
                               ELSE status_log
              /\ active_orders' = IF found THEN SeqRemove(active_orders, id)
                                  ELSE active_orders
    /\ UNCHANGED <<config, cash, positions, pending_child_orders, trade_counter,
                   trades, clock, last_call, last_cancel>>
    /\ UNCHANGED <<feedVars, positionVars, engineVars, managerVars>>

\* MARKET branch of _try_match: close + close * slippage (BUY), minus (SELL)
MarketFillNoSlippage(order, bar) == bar.close * PriceScale
MarketFill(order, bar) ==
    IF order.side = "BUY"
    THEN bar.close * PriceScale + bar.close * config.slippage
    ELSE bar.close * PriceScale - bar.close * config.slippage

\* LIMIT branch of _try_match
LimitFillAtLimit(order, bar) ==
    IF order.side = "BUY"
    THEN IF bar.low <= order.price THEN order.price * PriceScale ELSE NoFill
    ELSE IF bar.high >= order.price THEN order.price * PriceScale ELSE NoFill
LimitFill(order, bar) ==
    IF order.side = "BUY"
    THEN IF bar.low <= order.price
         THEN Min(order.price, bar.open) * PriceScale ELSE NoFill
    ELSE IF bar.high >= order.price
         THEN Max(order.price, bar.open) * PriceScale ELSE NoFill

\* _check_stop_trigger
CheckStopTrigger(order, bar) ==
    IF order.trigger_price = NoPrice THEN FALSE
    ELSE IF order.side = "BUY" THEN bar.high >= order.trigger_price
    ELSE bar.low <= order.trigger_price

\* _try_match: the fill price (NoFill for None) and order.triggered afterwards
TryMatchSameBar(order, bar) ==
    CASE order.order_type = "MARKET" ->
            [fill |-> MarketFill(order, bar), triggered |-> order.triggered]
      [] order.order_type = "LIMIT" ->
            [fill |-> LimitFill(order, bar), triggered |-> order.triggered]
      [] order.order_type = "STOP" ->
            IF order.triggered \/ CheckStopTrigger(order, bar)
            THEN [fill |-> MarketFill(order, bar), triggered |-> TRUE]
            ELSE [fill |-> NoFill, triggered |-> FALSE]
      [] order.order_type = "STOP_LIMIT" ->
            IF order.triggered \/ CheckStopTrigger(order, bar)
            THEN [fill |-> LimitFill(order, bar), triggered |-> TRUE]
            ELSE [fill |-> NoFill, triggered |-> FALSE]
      [] OTHER -> [fill |-> NoFill, triggered |-> order.triggered]
TryMatch(order, bar) ==
    CASE order.order_type = "MARKET" ->
            [fill |-> MarketFill(order, bar), triggered |-> order.triggered]
      [] order.order_type = "LIMIT" ->
            [fill |-> LimitFill(order, bar), triggered |-> order.triggered]
      [] order.order_type = "STOP" ->
            IF ~order.triggered
            THEN [fill |-> NoFill, triggered |-> CheckStopTrigger(order, bar)]
            ELSE [fill |-> MarketFill(order, bar), triggered |-> TRUE]
      [] order.order_type = "STOP_LIMIT" ->
            IF ~order.triggered
            THEN [fill |-> NoFill, triggered |-> CheckStopTrigger(order, bar)]
            ELSE [fill |-> LimitFill(order, bar), triggered |-> TRUE]
      [] OTHER -> [fill |-> NoFill, triggered |-> order.triggered]

\* The broker state threaded through one process_orders call
\*   cash, positions, orders, trades, trade_counter, status_log as the fields
\*   of the broker; remove is orders_to_remove.

\* the two rejections of _execute_fill: cost > cash (BUY), margin > cash (short)
FillRejectedNever(st, order, fill_price) == FALSE
FillRejected(st, order, fill_price) ==
    LET fee == fill_price * order.quantity * config.commission_rate
        notional == fill_price * order.quantity * RateDen
    IN  IF order.side = "BUY" THEN notional + fee > st.cash
        ELSE IF HasLong(st.positions, order.symbol) THEN FALSE
        ELSE notional + fee > st.cash

\* fee = fill_price * order.quantity * commission_rate, in MoneyScale units
FillFeeFree(order, fill_price) == 0
FillFee(order, fill_price) == fill_price * order.quantity * config.commission_rate

\* _execute_fill(order, fill_price, timestamp)
ExecuteFill(st, id, fill_price, timestamp) ==
    LET order == st.orders[id]
        fee == FillFee(order, fill_price)
        notional == fill_price * order.quantity * RateDen
    IN  IF FillRejected(st, order, fill_price)
        THEN [st EXCEPT !.orders[id].status = "REJECTED",
                        !.orders[id].error_msg = BACKTEST_INSUFFICIENT_FUNDS,
                        !.status_log[id] = Append(@, "REJECTED")]
        ELSE LET ncash == IF order.side = "BUY" THEN st.cash - (notional + fee)
                          ELSE st.cash + (notional - fee)
                 pos == IF order.symbol \in DOMAIN st.positions
                        THEN st.positions[order.symbol] ELSE NewPosition
                 delta == IF order.side = "BUY" THEN order.quantity
                          ELSE -order.quantity
                 upd == PositionUpdate(pos, delta, fill_price, WholeSnap)
                 trade == [id |-> st.trade_counter + 1, order_id |-> order.id,
                           symbol |-> order.symbol, side |-> order.side,
                           price |-> fill_price, quantity |-> order.quantity,
                           fee |-> fee, timestamp |-> timestamp, pnl |-> upd.pnl]
             IN  [st EXCEPT
                    !.cash = ncash,
                    !.positions = [s \in DOMAIN st.positions \cup {order.symbol} |->
                                      IF s = order.symbol THEN upd.pos
                                      ELSE st.positions[s]],
                    !.orders[id].status = "FILLED",
                    !.orders[id].filled_avg_price = fill_price,
                    !.orders[id].filled_quantity = order.quantity,
                    !.orders[id].fee = fee,
                    !.status_log[id] = Append(@, "FILLED"),
                    !.trade_counter = st.trade_counter + 1,
                    !.trades = Append(st.trades, trade)]

\* "if symbol and order.symbol != symbol: continue"
SymbolCoversAll(order, symbol) == TRUE
SymbolCovers(order, symbol) == symbol = NoSymbol \/ order.symbol = symbol

\* one order of the matching pass: _try_match, then _execute_fill and
\* orders_to_remove.append(order) when a fill price came back
MatchOneKeepRejected(st, id, bar) ==
    LET m == TryMatch(st.orders[id], bar)
        st1 == [st EXCEPT !.orders[id].triggered = m.triggered]
        st2 == ExecuteFill(st1, id, m.fill, bar.timestamp)
    IN  IF m.fill = NoFill THEN st1
        ELSE IF st2.orders[id].status = "FILLED"
             THEN [st2 EXCEPT !.remove = @ \cup {id}]
             ELSE st2
MatchOneNoRemove(st, id, bar) ==
    LET m == TryMatch(st.orders[id], bar)
        st1 == [st EXCEPT !.orders[id].triggered = m.triggered]
    IN  IF m.fill # NoFill THEN ExecuteFill(st1, id, m.fill, bar.timestamp)
        ELSE st1
MatchOne(st, id, bar) ==
    LET m == TryMatch(st.orders[id], bar)
        st1 == [st EXCEPT !.orders[id].triggered = m.triggered]
    IN  IF m.fill # NoFill
        THEN [ExecuteFill(st1, id, m.fill, bar.timestamp)
                 EXCEPT !.remove = @ \cup {id}]
        ELSE st1

\* "for order in self._active_orders", from position i on
RECURSIVE ProcessLoop(_, _, _, _, _)
ProcessLoop(st, active, i, bar, symbol) ==
    IF i > Len(active) THEN st
    ELSE IF ~SymbolCovers(st.orders[active[i]], symbol)
         THEN ProcessLoop(st, active, i + 1, bar, symbol)
         ELSE ProcessLoop(MatchOne(st, active[i], bar), active, i + 1, bar, symbol)

\* process_orders(bar, symbol): the matching pass and the removal loop
ProcessOrders ==
    /\ clock < MaxCalls
    /\ Len(orders) + clock < MaxOps
    /\ \E b \in OHLC, symbol \in Symbols \cup {NoSymbol} :
          LET bar == OHLCBar(b, clock + 1)
              st0 == [cash |-> cash, positions |-> positions, orders |-> orders,
                      trades |-> trades, trade_counter |-> trade_counter,
                      status_log |-> status_log, remove |-> {}]
              st == ProcessLoop(st0, active_orders, 1, bar, symbol)
          IN  /\ cash' = st.cash
              /\ positions' = st.positions
              /\ orders' = st.orders
              /\ trades' = st.trades
              /\ trade_counter' = st.trade_counter
              /\ status_log' = st.status_log
              /\ active_orders' = SelectSeq(active_orders, LAMBDA e : e \notin st.remove)
              /\ last_call' = [symbol |-> symbol, bar |-> bar]
    /\ clock' = clock + 1
    /\ UNCHANGED <<config, pending_child_orders, last_cancel>>
    /\ UNCHANGED <<feedVars, positionVars, engineVars, managerVars>>

FeedIdle ==
    /\ base_data = EmptyMap
    /\ other_data = EmptyMap
    /\ last_seen_other = EmptyMap
    /\ tf_aligned = <<>>
    /\ feeds = EmptyMap
    /\ last_valid_bars = EmptyMap
    /\ mf_aligned = <<>>
    /\ mf_k = 0

\* BacktestBroker.__init__(config)
InitBroker ==
    /\ \E commission_rate \in Rates, slippage \in Rates :
          config = [initial_capital |-> InitialCapital,
                    commission_rate |-> commission_rate, slippage |-> slippage]
    /\ cash = InitialCapital * MoneyScale
    /\ positions = EmptyMap
    /\ orders = <<>>
    /\ active_orders = <<>>
    /\ pending_child_orders = <<>>
    /\ trade_counter = 0
    /\ trades = <<>>
    /\ status_log = <<>>
    /\ clock = 0
    /\ last_call = [symbol |-> NoSymbol, bar |-> NoCallBar]
    /\ last_cancel = NoCancel
    /\ PositionIdle
    /\ EngineIdle
    /\ ManagerIdle
    /\ FeedIdle

NextBroker == SubmitOrder \/ CancelOrder \/ ProcessOrders

SpecBroker == InitBroker /\ [][NextBroker]_vars

\* exact sum of two floats
RatAdd(a, b) == Rat(a.n * b.d + b.n * a.d, a.d * b.d)

\* Position.market_value(current_price), in 1/MoneyScale; avg_price is in
\* 1/PriceScale, current_price in currency units
MarketValueLongShort(pos, current_price) ==
    RatInt(pos.quantity * current_price * MoneyScale)
MarketValue(pos, current_price) ==
    IF pos.quantity > 0
    THEN RatInt(pos.quantity * current_price * MoneyScale)
    ELSE IF pos.quantity < 0
         THEN Rat(Abs(pos.quantity)
                    * (pos.avg_price.n * RateDen
                       - current_price * MoneyScale * pos.avg_price.d),
                  pos.avg_price.d)
         ELSE RatInt(0)

\* the price maps handed to get_value: any symbols, any prices
PriceMaps == UNION {[S -> Prices] : S \in SUBSET Symbols}

\* get_value(prices): the loop over self._positions.items()
RECURSIVE GetValueLoop(_, _, _, _)
GetValueLoop(value, todo, pp, prices) ==
    IF todo = {} THEN value
    ELSE LET symbol == CHOOSE x \in todo : TRUE
             position_ == pp[symbol]
         IN  GetValueLoop(IF position_.quantity # 0 /\ symbol \in DOMAIN prices
                          THEN RatAdd(value, MarketValue(position_, prices[symbol]))
                          ELSE value,
                          todo \ {symbol}, pp, prices)
GetValue(prices) == GetValueLoop(RatInt(cash), DOMAIN positions, positions, prices)

\* ------------------------------------- linked orders: OCO, bracket, trailing
\* broker.py as listed has no add_child_order, no OCO or parent handling and
\* no STOP_TRAIL branch, while engine.py (634-635, 698-699), the Order fields
\* (models.py 102-107) and the tests use them.  This part of process_orders is
\* written from the broker contract of the specification: on a fill (a) the
\* OCO peer is canceled if still active, (b) pending orders whose parent_id is
\* the filled order move from the dormant pool into the active set; a
\* STOP_TRAIL order recomputes its extremum and trigger_price every bar before
\* the STOP logic is applied.  Matching and the fill itself are _try_match and
\* _execute_fill of broker.py.
MaxLinkedOrders == 3    \* orders handed to the broker, children included
MaxLinkedCalls == 3     \* process_orders calls
MaxLinkedOps == 4       \* submit_order / bracket calls and process_orders calls
MaxTrailOrders == 1     \* STOP_TRAIL orders submitted

OCO_CANCELED == "OCO_CANCELED"

\* the pass threads st of ProcessOrders extended by the active list and the
\* dormant pool
OcoPeerActive(st, id) ==
    LET peer == st.orders[id].oco_id
    IN  /\ peer # NoId /\ peer \in 1..Len(st.orders)
        /\ peer \in Range(st.active) /\ peer \notin st.remove
        /\ st.orders[peer].status = "ACCEPTED"

\* (a) cancel the OCO peer of the filled order id if it is still active
CancelOcoPeerNever(st, id) == st
CancelOcoPeer(st, id) ==
    LET peer == st.orders[id].oco_id
    IN  IF OcoPeerActive(st, id)
        THEN [st EXCEPT !.orders[peer].status = "CANCELED",
                        !.orders[peer].error_msg = OCO_CANCELED,
                        !.status_log[peer] = Append(@, "CANCELED"),
                        !.remove = @ \cup {peer}]
        ELSE st

\* (b) move the pending children of the filled order id into the active set
RECURSIVE AcceptAll(_, _, _)
AcceptAll(st, ids, i) ==
    IF i > Len(ids) THEN st
    ELSE AcceptAll([st EXCEPT !.orders[ids[i]].status = "ACCEPTED",
                              !.status_log[ids[i]] = Append(@, "ACCEPTED")],
                   ids, i + 1)
ActivateChildren(st, id) ==
    LET children == SelectSeq(st.pending, LAMBDA c : st.orders[c].parent_id = id)
        rest == SelectSeq(st.pending, LAMBDA c : st.orders[c].parent_id # id)
    IN  AcceptAll([st EXCEPT !.active = st.active \o children, !.pending = rest],
                  children, 1)

\* STOP_TRAIL, before the fill check: the extremum moves only in the
\* favourable direction and trigger_price is recomputed from trail_amount
UpdateTrailFollowBar(order, bar) ==
    IF order.order_type # "STOP_TRAIL" THEN order
    ELSE IF order.side = "SELL"
         THEN [order EXCEPT !.highest_price = bar.high,
                            !.trigger_price = bar.high - order.trail_amount]
         ELSE [order EXCEPT !.lowest_price = bar.low,
                            !.trigger_price = bar.low + order.trail_amount]
UpdateTrail(order, bar) ==
    IF order.order_type # "STOP_TRAIL" THEN order
    ELSE IF order.side = "SELL"
         THEN LET h == Max(order.highest_price, bar.high)
              IN  [order EXCEPT !.highest_price = h,
                                !.trigger_price = h - order.trail_amount]
         ELSE LET l == Min(order.lowest_price, bar.low)
              IN  [order EXCEPT !.lowest_price = l,
                                !.trigger_price = l + order.trail_amount]

\* _try_match with the STOP_TRAIL branch: "then apply STOP fill logic"
TryMatchLinked(order, bar) ==
    IF order.order_type = "STOP_TRAIL"
    THEN TryMatch([order EXCEPT !.order_type = "STOP"], bar)
    ELSE TryMatch(order, bar)

\* one order of the pass
MatchOneLinked(st, id, bar) ==
    LET st0 == [st EXCEPT !.orders[id] = UpdateTrail(@, bar)]
        m == TryMatchLinked(st0.orders[id], bar)
        st1 == [st0 EXCEPT !.orders[id].triggered = m.triggered]
        st2 == [ExecuteFill(st1, id, m.fill, bar.timestamp)
                   EXCEPT !.remove = @ \cup {id}]
    IN  IF m.fill = NoFill THEN st1
        ELSE IF st2.orders[id].status = "FILLED"
             THEN ActivateChildren(CancelOcoPeer(st2, id), id)
             ELSE st2

\* the orders active when the call starts, in list order; an order canceled
\* earlier in the pass is passed over
RECURSIVE ProcessLoopLinked(_, _, _, _, _)
ProcessLoopLinked(st, active, i, bar, symbol) ==
    IF i > Len(active) THEN st
    ELSE IF \/ ~SymbolCovers(st.orders[active[i]], symbol)
            \/ st.orders[active[i]].status # "ACCEPTED"
         THEN ProcessLoopLinked(st, active, i + 1, bar, symbol)
         ELSE ProcessLoopLinked(MatchOneLinked(st, active[i], bar),
                                active, i + 1, bar, symbol)

LinkedOps == Cardinality({id \in 1..Len(orders) : orders[id].parent_id = NoId}) + clock

ProcessLinked(bars) ==
    /\ clock < MaxLinkedCalls
    /\ LinkedOps < MaxLinkedOps
    /\ \E b \in bars, symbol \in Symbols \cup {NoSymbol} :
          LET bar == OHLCBar(b, clock + 1)
              st0 == [cash |-> cash, positions |-> positions, orders |-> orders,
                      trades |-> trades, trade_counter |-> trade_counter,
                      status_log |-> status_log, remove |-> {},
                      active |-> active_orders, pending |-> pending_child_orders]
              st == ProcessLoopLinked(st0, active_orders, 1, bar, symbol)
          IN  /\ cash' = st.cash
              /\ positions' = st.positions
              /\ orders' = st.orders
              /\ trades' = st.trades
              /\ trade_counter' = st.trade_counter
              /\ status_log' = st.status_log
              /\ active_orders' = SelectSeq(st.active, LAMBDA e : e \notin st.remove)
              /\ pending_child_orders' = st.pending
              /\ last_call' = [symbol |-> symbol, bar |-> bar]
    /\ clock' = clock + 1
    /\ UNCHANGED <<config, last_cancel>>
    /\ UNCHANGED <<feedVars, positionVars, engineVars, managerVars>>

ProcessOrdersLinked == ProcessLinked(OHLC)

\* submit_order of an order that names an OCO peer, as the tests build them
\* (a protective STOP and a LIMIT), all on one symbol
LinkedShapes == {sh \in OrderShapes : sh.order_type \in {"LIMIT", "STOP"}}
LinkedSymbols == {"BTCUSDT"}

SubmitLinkedOrder ==
    /\ Len(orders) < MaxLinkedOrders - 1
    /\ LinkedOps < MaxLinkedOps
    /\ \E symbol \in LinkedSymbols, side \in {"BUY", "SELL"}, shape \in LinkedShapes,
          oco_id \in (0..(MaxLinkedOrders - 1)) \ {Len(orders) + 1} :
          LET id == Len(orders) + 1
              order == [NewOrder(id, symbol, side, shape, 1, clock)
                           EXCEPT !.oco_id = oco_id]
              ok == ValidateOrder(order)
              final == IF ok THEN [order EXCEPT !.status = "ACCEPTED"]
                       ELSE [order EXCEPT !.status = "REJECTED",
                                          !.error_msg = BACKTEST_INSUFFICIENT_FUNDS]
          IN  /\ orders' = Append(orders, final)
              /\ status_log' = Append(status_log,
                                      <<"CREATED", "SUBMITTED", final.status>>)
              /\ active_orders' = IF ok THEN Append(active_orders, id)
                                  ELSE active_orders
    /\ UNCHANGED <<config, cash, positions, pending_child_orders, trade_counter,
                   trades, clock, last_call, last_cancel>>
    /\ UNCHANGED <<feedVars, positionVars, engineVars, managerVars>>

\* add_child_order(order): the order waits in the dormant pool
AddChildOrder(pending, id) == Append(pending, id)

\* _api_buy_bracket / _api_sell_bracket: the MARKET main order through
\* submit_order, then the STOP and the LIMIT child, each naming the main order
\* as parent and the other child as OCO peer, through add_child_order
BracketSubmitsChildren(side) ==
    /\ Len(orders) + 3 <= MaxLinkedOrders
    /\ LinkedOps < MaxLinkedOps
    /\ \E symbol \in LinkedSymbols, size \in Quantities, stopprice \in Prices,
          limitprice \in Prices :
          LET main_id == Len(orders) + 1
              stop_id == main_id + 1
              limit_id == main_id + 2
              exit == IF side = "BUY" THEN "SELL" ELSE "BUY"
              market == [order_type |-> "MARKET", price |-> NoPrice,
                         trigger_price |-> NoPrice]
              stop == [order_type |-> "STOP", price |-> NoPrice,
                       trigger_price |-> stopprice]
              limit == [order_type |-> "LIMIT", price |-> limitprice,
                        trigger_price |-> NoPrice]
              main0 == NewOrder(main_id, symbol, side, market, size, clock)
              ok == ValidateOrder(main0)
              main_order == IF ok THEN [main0 EXCEPT !.status = "ACCEPTED"]
                            ELSE [main0 EXCEPT !.status = "REJECTED",
                                     !.error_msg = BACKTEST_INSUFFICIENT_FUNDS]
              stop_order == [NewOrder(stop_id, symbol, exit, stop, size, clock)
                                EXCEPT !.parent_id = main_id, !.oco_id = limit_id]
              limit_order == [NewOrder(limit_id, symbol, exit, limit, size, clock)
                                 EXCEPT !.parent_id = main_id, !.oco_id = stop_id]
          IN  /\ orders' = orders \o <<main_order,
                                        [stop_order EXCEPT !.status = "ACCEPTED"],
                                        [limit_order EXCEPT !.status = "ACCEPTED"]>>
              /\ status_log' = status_log \o
                    << <<"CREATED", "SUBMITTED", main_order.status>>,
                       <<"CREATED", "SUBMITTED", "ACCEPTED">>,
                       <<"CREATED", "SUBMITTED", "ACCEPTED">> >>
              /\ active_orders' = (IF ok THEN Append(active_orders, main_id)
                                   ELSE active_orders) \o <<stop_id, limit_id>>
    /\ UNCHANGED <<config, cash, positions, pending_child_orders, trade_counter,
                   trades, clock, last_call, last_cancel>>
    /\ UNCHANGED <<feedVars, positionVars, engineVars, managerVars>>

Bracket(side) ==
    /\ Len(orders) + 3 <= MaxLinkedOrders
    /\ LinkedOps < MaxLinkedOps
    /\ \E symbol \in LinkedSymbols, size \in Quantities, stopprice \in Prices,
          limitprice \in Prices :
          LET main_id == Len(orders) + 1
              stop_id == main_id + 1
              limit_id == main_id + 2
              exit == IF side = "BUY" THEN "SELL" ELSE "BUY"
              market == [order_type |-> "MARKET", price |-> NoPrice,
                         trigger_price |-> NoPrice]
              stop == [order_type |-> "STOP", price |-> NoPrice,
                       trigger_price |-> stopprice]
              limit == [order_type |-> "LIMIT", price |-> limitprice,
                        trigger_price |-> NoPrice]
              main0 == NewOrder(main_id, symbol, side, market, size, clock)
              ok == ValidateOrder(main0)
              main_order == IF ok THEN [main0 EXCEPT !.status = "ACCEPTED"]
                            ELSE [main0 EXCEPT !.status = "REJECTED",
                                     !.error_msg = BACKTEST_INSUFFICIENT_FUNDS]
              stop_order == [NewOrder(stop_id, symbol, exit, stop, size, clock)
                                EXCEPT !.parent_id = main_id, !.oco_id = limit_id]
              limit_order == [NewOrder(limit_id, symbol, exit, limit, size, clock)
                                 EXCEPT !.parent_id = main_id, !.oco_id = stop_id]
          IN  /\ orders' = orders \o <<main_order, stop_order, limit_order>>
              /\ status_log' = status_log \o
                    << <<"CREATED", "SUBMITTED", main_order.status>>,
                       <<"CREATED">>, <<"CREATED">> >>
              /\ active_orders' = IF ok THEN Append(active_orders, main_id)
                                  ELSE active_orders
              /\ pending_child_orders' =
                    AddChildOrder(AddChildOrder(pending_child_orders, stop_id),
                                  limit_id)
    /\ UNCHANGED <<config, cash, positions, trade_counter, trades, clock,
                   last_call, last_cancel>>
    /\ UNCHANGED <<feedVars, positionVars, engineVars, managerVars>>

BuyBracket == Bracket("BUY")
SellBracket == Bracket("SELL")

\* cancel_order(order) with its return value; order is any order the broker
\* was handed, or one it never saw (index Len(orders) + 1)
CancelReturnAlways(id) == TRUE
CancelReturn(id) == id \in Range(active_orders)

CancelOrderReturn ==
    /\ last_cancel.calls < MaxCancels
    /\ Len(orders) + clock + last_cancel.calls < MaxOps
    /\ \E id \in 1..(Len(orders) + 1) :
          LET found == id \in Range(active_orders)
          IN  /\ orders' = IF found THEN [orders EXCEPT ![id].status = "CANCELED"]
                           ELSE orders
              /\ status_log' = IF found
                               THEN [status_log EXCEPT ![id] = Append(@, "CANCELED")]
                               ELSE status_log
              /\ active_orders' = IF found THEN SeqRemove(active_orders, id)
                                  ELSE active_orders
              /\ last_cancel' = [order |-> id,
                                 status |-> IF id <= Len(orders)
                                            THEN orders[id].status ELSE "NONE",
                                 ret |-> CancelReturn(id),
                                 calls |-> last_cancel.calls + 1]
    /\ UNCHANGED <<config, cash, positions, pending_child_orders, trade_counter,
                   trades, clock, last_call>>
    /\ UNCHANGED <<feedVars, positionVars, engineVars, managerVars>>

\* the broker of SpecBroker with cancel_order's return value observed
NextCancel == SubmitOrder \/ ProcessOrders \/ CancelOrderReturn

SpecCancel == InitBroker /\ [][NextCancel]_vars

\* ------------------------------------------------- round trips, zero costs
\* the strategy API of the engine on a broker with commission 0 and slippage
\* 0: order(symbol, side, quantity) and close(symbol) submit MARKET orders,
\* the run loop calls process_orders once per bar
MaxTripOrders == 3
MaxTripCalls == 3
TripCapital == 100000
TripCloses == {50000, 52000, 54000}
TripSymbol == "BTCUSDT"
\* make_bars: open = close = p, high = p * 1.01, low = p * 0.99
TripBars ==
    {[open |-> p, high |-> p + p \div 100, low |-> p - p \div 100, close |-> p] :
        p \in TripCloses}
MarketShape == [order_type |-> "MARKET", price |-> NoPrice, trigger_price |-> NoPrice]

\* _api_order(symbol, side, quantity) with neither price nor exectype: what
\* it does to the broker
ApiOrderSubmit(symbol, side, quantity) ==
    /\ Len(orders) < MaxTripOrders
    /\ LET id == Len(orders) + 1
           order == NewOrder(id, symbol, side, MarketShape, quantity, clock)
           ok == ValidateOrder(order)
           final == IF ok THEN [order EXCEPT !.status = "ACCEPTED"]
                    ELSE [order EXCEPT !.status = "REJECTED",
                                       !.error_msg = BACKTEST_INSUFFICIENT_FUNDS]
       IN  /\ orders' = Append(orders, final)
           /\ status_log' = Append(status_log,
                                   <<"CREATED", "SUBMITTED", final.status>>)
           /\ active_orders' = IF ok THEN Append(active_orders, id)
                               ELSE active_orders
    /\ UNCHANGED <<config, cash, positions, pending_child_orders, trade_counter,
                   trades, clock, last_call, last_cancel>>
    /\ UNCHANGED <<feedVars, positionVars, managerVars>>

ApiOrderCall(symbol, side, quantity) ==
    /\ ApiOrderSubmit(symbol, side, quantity)
    /\ UNCHANGED engineVars

ApiOrder ==
    \E side \in {"BUY", "SELL"}, quantity \in Quantities :
        ApiOrderCall(TripSymbol, side, quantity)

\* side = "SELL" if position.quantity > 0 else "BUY"
CloseSideSame(quantity) == IF quantity > 0 THEN "BUY" ELSE "SELL"
CloseSide(quantity) == IF quantity > 0 THEN "SELL" ELSE "BUY"

\* get_position(symbol).quantity, 0 where the broker holds no position
HeldQuantity(symbol) ==
    IF symbol \in DOMAIN positions THEN positions[symbol].quantity ELSE 0

\* _api_close(symbol): None without a position, else the order of the
\* opposite side for abs(position.quantity); last_query keeps the call, the
\* quantity it found and the id of the order it returned (NoId for None)
ApiClose ==
    LET quantity == HeldQuantity(TripSymbol)
    IN  /\ IF quantity = 0
           THEN /\ last_query' = [api |-> "close", symbol |-> TripSymbol,
                                   quantity |-> 0, ret |-> NoId]
                /\ UNCHANGED <<brokerVars, feedVars, positionVars, managerVars>>
           ELSE /\ ApiOrderSubmit(TripSymbol, CloseSide(quantity), Abs(quantity))
                /\ last_query' = [api |-> "close", symbol |-> TripSymbol,
                                   quantity |-> quantity,
                                   ret |-> Len(orders) + 1]
        /\ UNCHANGED <<run_pc, run_data, strategy, on_progress, bar_index,
                       current_timestamp, equity_curve, hook_log, run_result,
                       run_log, bar_history>>

\* process_orders(bar, symbol) of the run loop, once per bar
ProcessOrdersTrip ==
    /\ clock < MaxTripCalls
    /\ \E b \in TripBars, symbol \in {TripSymbol, NoSymbol} :
          LET bar == OHLCBar(b, clock + 1)
              st0 == [cash |-> cash, positions |-> positions, orders |-> orders,
                      trades |-> trades, trade_counter |-> trade_counter,
                      status_log |-> status_log, remove |-> {}]
              st == ProcessLoop(st0, active_orders, 1, bar, symbol)
          IN  /\ cash' = st.cash
              /\ positions' = st.positions
              /\ orders' = st.orders
              /\ trades' = st.trades
              /\ trade_counter' = st.trade_counter
              /\ status_log' = st.status_log
              /\ active_orders' = SelectSeq(active_orders, LAMBDA e : e \notin st.remove)
              /\ last_call' = [symbol |-> symbol, bar |-> bar]
    /\ clock' = clock + 1
    /\ UNCHANGED <<config, pending_child_orders, last_cancel>>
    /\ UNCHANGED <<feedVars, positionVars, engineVars, managerVars>>

\* BacktestBroker(BacktestConfig(initial_capital=100000, commission_rate=0,
\* slippage=0))
InitTrip ==
    /\ config = [initial_capital |-> TripCapital, commission_rate |-> 0,
                 slippage |-> 0]
    /\ cash = TripCapital * MoneyScale
    /\ positions = EmptyMap
    /\ orders = <<>>
    /\ active_orders = <<>>
    /\ pending_child_orders = <<>>
    /\ trade_counter = 0
    /\ trades = <<>>
    /\ status_log = <<>>
    /\ clock = 0
    /\ last_call = [symbol |-> NoSymbol, bar |-> NoCallBar]
    /\ last_cancel = NoCancel
    /\ PositionIdle
    /\ EngineIdle
    /\ ManagerIdle
    /\ FeedIdle

NextTrip == ApiOrder \/ ApiClose \/ ProcessOrdersTrip

SpecTrip == InitTrip /\ [][NextTrip]_vars

NextLinked ==
    \/ SubmitLinkedOrder
    \/ BuyBracket
    \/ SellBracket
    \/ ProcessOrdersLinked

SpecLinked == InitBroker /\ [][NextLinked]_vars

\* bars and trail amounts of the trailing-stop runs: a bar can stay above a
\* SELL trigger (high - amount) and below a BUY trigger (low + amount)
TrailPrices == {2, 3}
TrailAmounts == {1, 2}
TrailOHLC ==
    {b \in [open : TrailPrices, high : TrailPrices, low : TrailPrices,
            close : TrailPrices] :
        /\ b.low <= b.open /\ b.open <= b.high
        /\ b.low <= b.close /\ b.close <= b.high}

\* _api_trailing_stop with size and trailamount given, and the BUY-side order
\* it builds for a short position: Order(order_type=STOP_TRAIL, highest_price
\* = 0.0, lowest_price = inf) through submit_order
SubmitTrailingStop ==
    /\ Len(orders) < MaxTrailOrders
    /\ LinkedOps < MaxLinkedOps
    /\ \E symbol \in Symbols, side \in {"BUY", "SELL"}, trailamount \in TrailAmounts :
          LET id == Len(orders) + 1
              shape == [order_type |-> "STOP_TRAIL", price |-> NoPrice,
                        trigger_price |-> NoPrice]
              order == [NewOrder(id, symbol, side, shape, 1, clock)
                           EXCEPT !.trail_amount = trailamount]
              ok == ValidateOrder(order)
              final == IF ok THEN [order EXCEPT !.status = "ACCEPTED"]
                       ELSE [order EXCEPT !.status = "REJECTED",
                                          !.error_msg = BACKTEST_INSUFFICIENT_FUNDS]
          IN  /\ orders' = Append(orders, final)
              /\ status_log' = Append(status_log,
                                      <<"CREATED", "SUBMITTED", final.status>>)
              /\ active_orders' = IF ok THEN Append(active_orders, id)
                                  ELSE active_orders
    /\ UNCHANGED <<config, cash, positions, pending_child_orders, trade_counter,
                   trades, clock, last_call, last_cancel>>
    /\ UNCHANGED <<feedVars, positionVars, engineVars, managerVars>>

ProcessOrdersTrail == ProcessLinked(TrailOHLC)

NextTrail == SubmitTrailingStop \/ ProcessOrdersTrail

SpecTrail == InitBroker /\ [][NextTrail]_vars

\* --------------------------------------------------- Position on its own
\* Position.update called on one Position object with quantities counted in
\* units of 0.5e-10, so that a remainder below the 1e-10 threshold occurs
MaxUpdates == 3
PosDeltas == (-4..4) \ {0}

PositionUpdateCall ==
    /\ last_update.calls < MaxUpdates
    /\ \E delta_quantity \in PosDeltas, price \in Prices :
          LET upd == PositionUpdate(position, delta_quantity, price, DustSnap)
          IN  /\ position' = upd.pos
              /\ last_update' = [before |-> position,
                                 delta_quantity |-> delta_quantity,
                                 price |-> price, pnl |-> upd.pnl,
                                 calls |-> last_update.calls + 1]
    /\ UNCHANGED <<feedVars, brokerVars, engineVars, managerVars>>

InitPosition == PositionIdle /\ BrokerIdle /\ FeedIdle

SpecPosition == InitPosition /\ [][PositionUpdateCall]_vars

\* ------------------------------------------------------ BacktestEngine.run
\* run(strategy_code, data, on_progress) as the steps of its loop: the part
\* of an iteration up to the progress report (3.1-3.3), then the strategy's
\* on_bar and the log commit (3.4-3.5).  Data is a list of bars (SingleFeed,
\* symbol "DEFAULT", so process_orders is called with symbol=None).
MaxBars == 3            \* bars of a run
MaxRuns == 1            \* run() calls on one engine instance, SpecRun
MaxReruns == 3          \* run() calls on one engine instance, SpecRerun

\* the strategy source as what it does: whether it loads, what init does,
\* what the n-th on_bar call does, which hooks raise
NoAct == [api |-> "none", side |-> "BUY", quantity |-> 0, price |-> NoPrice]
CloseAct == [api |-> "close", side |-> "BUY", quantity |-> 0, price |-> NoPrice]
OrderActs ==
    [api : {"order"}, side : {"BUY", "SELL"}, quantity : Quantities,
     price : {NoPrice} \cup Prices]
OnBarActs == {NoAct, CloseAct} \cup OrderActs
StrategySymbol == "BTCUSDT"

\* make a list of bars: flat bars, timestamps 1, 2, ...
RunBar(p, ts) == [open |-> p, high |-> p, low |-> p, close |-> p, timestamp |-> ts]
RECURSIVE BarLists(_)
BarLists(n) ==
    IF n = 0 THEN {<<>>}
    ELSE {Append(bars, RunBar(p, n)) : bars \in BarLists(n - 1), p \in Prices}
DataSets == UNION {BarLists(n) : n \in 0..MaxBars}

\* BacktestAnalyzer._empty_result()
EmptyResult ==
    [kind |-> "result", total_return |-> RatInt(0), annualized_return |-> 0,
     max_drawdown |-> 0, sharpe_ratio |-> 0, win_rate |-> 0,
     profit_factor |-> 0, total_trades |-> 0, equity_curve |-> <<>>,
     trades |-> <<>>]
\* BacktestAnalyzer.analyze(initial_capital, equity_curve, trades); of a
\* non-empty curve total_return, total_trades, the curve and the trades are
\* modelled, the other ratios are not
Analyze(initial_capital, curve, tt) ==
    IF curve = <<>> THEN EmptyResult
    ELSE LET final == curve[Len(curve)].equity
             initial == RatInt(initial_capital * MoneyScale)
         IN  [kind |-> "result",
              total_return |->
                  IF initial_capital <= 0 THEN RatInt(0)
                  ELSE Rat(final.n - initial.n * final.d, final.d * initial.n),
              total_trades |-> Len(tt), equity_curve |-> curve, trades |-> tt]
\* run() raised: RuntimeError from init, or what _load_strategy raised
Raised(error) == [kind |-> "raised", error |-> error]

\* _reset(): a new BacktestBroker(self.config) and empty result data
ResetBroker(initial_capital) ==
    /\ cash' = initial_capital * MoneyScale
    /\ positions' = <<>>
    /\ orders' = <<>>
    /\ active_orders' = <<>>
    /\ pending_child_orders' = <<>>
    /\ trade_counter' = 0
    /\ trades' = <<>>
    /\ status_log' = <<>>
    /\ clock' = 0
    /\ last_call' = [symbol |-> NoSymbol, bar |-> NoCallBar]

\* what a finished run leaves for comparison with other runs
RunRecord(code, data, result, final_cash) ==
    [code |-> code, data |-> data, result |-> result, cash |-> final_cash]

\* "if not feed or len(feed) == 0"
EmptyFeedNever(data) == FALSE
EmptyFeed(data) == data = <<>>

\* _api_set_capital(amount) called by init (amount > 0), or no call
SetCapital(cfg, amount) ==
    IF amount = NoPrice THEN cfg ELSE [cfg EXCEPT !.initial_capital = amount]

\* self._strategy.init(): an exception is re-raised as RuntimeError
InitOutcomeLogged(code) == NoResult
InitOutcome(code) == IF code.init_raises THEN Raised("init") ELSE NoResult

\* run() up to the loop: _reset, the empty-data return, _load_strategy, init
RunStart(codes, datasets, task, max_runs) ==
    /\ run_pc \in {"idle", "returned", "raised"}
    /\ Len(run_log) < max_runs
    /\ \E code \in codes, data \in datasets :
          LET loaded == ~EmptyFeed(data) /\ code.loads
              cfg == IF loaded THEN SetCapital(config, code.capital) ELSE config
              result == IF EmptyFeed(data)
                        THEN Analyze(config.initial_capital, <<>>, <<>>)
                        ELSE IF ~code.loads THEN Raised("load")
                        ELSE InitOutcome(code)
          IN  /\ ResetBroker(IF loaded /\ code.capital # NoPrice
                             THEN code.capital ELSE config.initial_capital)
              /\ config' = cfg
              /\ run_data' = data
              /\ strategy' = IF loaded THEN [loaded |-> TRUE, code |-> code]
                             ELSE NoStrategy
              /\ hook_log' = IF loaded
                             THEN <<[hook |-> "init", arg |-> 0,
                                     raised |-> code.init_raises]>>
                             ELSE <<>>
              /\ run_result' = result
              /\ run_pc' = IF result = NoResult THEN "match"
                           ELSE IF result.kind = "raised" THEN "raised"
                           ELSE "returned"
              /\ run_log' = IF result = NoResult THEN run_log
                            ELSE Append(run_log,
                                        RunRecord(code, data, result, cash'))
    /\ on_progress' = task
    /\ bar_index' = 0
    /\ current_timestamp' = 0
    /\ equity_curve' = <<>>
    /\ bar_history' = <<>>
    /\ UNCHANGED <<last_cancel, last_query>>

\* broker._notify_order(order) for the orders whose status a call changed:
\* it calls _on_order_callback only if one was set, and the engine never
\* calls broker.set_callbacks, so the strategy's hooks are not reached
BrokerNotifyOrder(before, after) == <<>>

\* _on_trade_filled(trade) for each new trade: notify_order(order), and
\* notify_trade(trade) if trade.pnl != 0; exceptions are caught
TradeHooksAlways(code, trade) ==
    <<[hook |-> "notify_order", arg |-> trade.order_id,
       raised |-> code.notify_order_raises],
      [hook |-> "notify_trade", arg |-> trade.order_id,
       raised |-> code.notify_trade_raises]>>
TradeHooks(code, trade) ==
    <<[hook |-> "notify_order", arg |-> trade.order_id,
       raised |-> code.notify_order_raises]>>
    \o (IF trade.pnl # RatInt(0)
        THEN <<[hook |-> "notify_trade", arg |-> trade.order_id,
                raised |-> code.notify_trade_raises]>>
        ELSE <<>>)

RECURSIVE AllTradeHooks(_, _, _)
AllTradeHooks(code, tt, from) ==
    IF from > Len(tt) THEN <<>>
    ELSE TradeHooks(code, tt[from]) \o AllTradeHooks(code, tt, from + 1)

\* _calculate_equity(bar): get_value({s: bar.close for s in _symbols}), or
\* cash while no symbol was traded
CalculateEquity(st, bar) ==
    LET symbols == {st.orders[i].symbol : i \in 1..Len(st.orders)}
    IN  IF symbols = {} THEN RatInt(st.cash)
        ELSE GetValueLoop(RatInt(st.cash), DOMAIN st.positions, st.positions,
                          [x \in symbols |-> bar.close])

\* step 3.2 comes after step 3.1: the equity point of an iteration is
\* computed from the broker as process_orders left it
EquityBeforeMatch(before, after, bar) == CalculateEquity(before, bar)
EquityAfterMatch(before, after, bar) == CalculateEquity(after, bar)

\* the progress report handed to on_progress(i + 1, total, equity, timestamp)
ProgressEvent(current, total, equity, timestamp) ==
    [type |-> "progress", current |-> current, total |-> total,
     equity |-> equity, timestamp |-> timestamp]

\* steps 3.1-3.3 of one iteration: process_orders, _on_trade_filled for the
\* new trades, the equity point, on_progress
RunMatch ==
    /\ run_pc = "match"
    /\ bar_index < Len(run_data)
    /\ LET bar == run_data[bar_index + 1]
           st0 == [cash |-> cash, positions |-> positions, orders |-> orders,
                   trades |-> trades, trade_counter |-> trade_counter,
                   status_log |-> status_log, remove |-> {}]
           st == ProcessLoop(st0, active_orders, 1, bar, NoSymbol)
           equity == EquityAfterMatch(st0, st, bar)
       IN  /\ cash' = st.cash
           /\ positions' = st.positions
           /\ orders' = st.orders
           /\ trades' = st.trades
           /\ trade_counter' = st.trade_counter
           /\ status_log' = st.status_log
           /\ active_orders' = SelectSeq(active_orders, LAMBDA e : e \notin st.remove)
           /\ last_call' = [symbol |-> NoSymbol, bar |-> bar]
           /\ current_timestamp' = bar.timestamp
           /\ hook_log' = hook_log
                            \o BrokerNotifyOrder(orders, st.orders)
                            \o AllTradeHooks(strategy.code, st.trades, Len(trades) + 1)
           /\ equity_curve' = Append(equity_curve,
                                     [timestamp |-> bar.timestamp, equity |-> equity])
           /\ loop_ready' =
                 IF on_progress = NoTask THEN loop_ready
                 ELSE Append(loop_ready,
                             [call |-> "put_nowait", task |-> on_progress,
                              event |-> ProgressEvent(bar_index + 1, Len(run_data),
                                                      equity, bar.timestamp)])
    /\ clock' = clock + 1
    /\ run_pc' = "strategy"
    /\ UNCHANGED <<config, pending_child_orders, last_cancel>>
    /\ bar_history' = Append(bar_history, run_data[bar_index + 1])
    /\ UNCHANGED <<run_data, strategy, on_progress, bar_index, run_result, run_log,
                   last_query>>

\* the symbol argument of the call: the one symbol of the single-symbol
\* strategies, or the one the call names
ActSymbol(act) == IF "symbol" \in DOMAIN act THEN act.symbol ELSE StrategySymbol

\* what the broker is left with by the API call on_bar makes before it
\* returns or raises: order(symbol, side, quantity, price) or close(symbol)
OnBarEffect(step) ==
    LET act == step.act
        pos == IF ActSymbol(act) \in DOMAIN positions
               THEN positions[ActSymbol(act)] ELSE NewPosition
        \* close() without a position returns None
        submits == act.api = "order" \/ (act.api = "close" /\ pos.quantity # 0)
        side == IF act.api = "order" THEN act.side
                ELSE IF pos.quantity > 0 THEN "SELL" ELSE "BUY"
        quantity == IF act.api = "order" THEN act.quantity ELSE Abs(pos.quantity)
        shape == IF act.api = "order" /\ act.price # NoPrice
                 THEN [order_type |-> "LIMIT", price |-> act.price,
                       trigger_price |-> NoPrice]
                 ELSE MarketShape
        id == Len(orders) + 1
        order == NewOrder(id, ActSymbol(act), side, shape, quantity,
                          current_timestamp)
        ok == ValidateOrder(order)
        final == IF ok THEN [order EXCEPT !.status = "ACCEPTED"]
                 ELSE [order EXCEPT !.status = "REJECTED",
                                    !.error_msg = BACKTEST_INSUFFICIENT_FUNDS]
    IN  /\ orders' = IF submits THEN Append(orders, final) ELSE orders
        /\ status_log' = IF submits
                         THEN Append(status_log,
                                     <<"CREATED", "SUBMITTED", final.status>>)
                         ELSE status_log
        /\ active_orders' = IF submits /\ ok THEN Append(active_orders, id)
                            ELSE active_orders

\* "except Exception as e: logger.error(...)": on_bar's exception never
\* leaves the loop
OnBarRaisesAbort(step) == step.raises
OnBarAborts(step) == FALSE

\* steps 3.4-3.5: on_bar(data_item), whose exception is caught, and commit
RunStrategy ==
    /\ run_pc = "strategy"
    /\ LET code == strategy.code
           step == code.script[bar_index + 1]
       IN  /\ OnBarEffect(step)
           /\ hook_log' = Append(hook_log \o BrokerNotifyOrder(orders, orders'),
                                 [hook |-> "on_bar", arg |-> bar_index + 1,
                                  raised |-> step.raises])
           /\ IF OnBarAborts(step)
              THEN /\ run_pc' = "raised"
                   /\ run_result' = Raised("on_bar")
                   /\ bar_index' = bar_index
                   /\ run_log' = Append(run_log,
                                        RunRecord(code, run_data, Raised("on_bar"), cash))
              ELSE /\ run_pc' = "match"
                   /\ run_result' = run_result
                   /\ bar_index' = bar_index + 1
                   /\ run_log' = run_log
    /\ UNCHANGED <<config, cash, positions, pending_child_orders, trade_counter,
                   trades, clock, last_call, last_cancel>>
    /\ UNCHANGED <<run_data, strategy, on_progress, current_timestamp, equity_curve,
                   bar_history, last_query>>

\* step 4: BacktestAnalyzer.analyze and return
RunReturn ==
    /\ run_pc = "match"
    /\ bar_index = Len(run_data)
    /\ LET result == Analyze(config.initial_capital, equity_curve, trades)
       IN  /\ run_result' = result
           /\ run_log' = Append(run_log,
                                RunRecord(strategy.code, run_data, result, cash))
    /\ run_pc' = "returned"
    /\ UNCHANGED brokerVars
    /\ UNCHANGED <<run_data, strategy, on_progress, bar_index, current_timestamp,
                   equity_curve, hook_log, bar_history, last_query>>

\* strategies of SpecRun: any script over these calls, any hook raising
RunActs ==
    {NoAct, CloseAct,
     [api |-> "order", side |-> "BUY", quantity |-> 1, price |-> NoPrice],
     [api |-> "order", side |-> "BUY", quantity |-> 2, price |-> NoPrice],
     [api |-> "order", side |-> "BUY", quantity |-> 2, price |-> 2]}
RunCodes ==
    [loads : BOOLEAN, init_raises : BOOLEAN, capital : {NoPrice},
     script : [1..MaxBars -> [act : RunActs, raises : BOOLEAN]],
     notify_order_raises : BOOLEAN, notify_trade_raises : BOOLEAN]

EngineRunStart ==
    /\ RunStart(RunCodes, DataSets, NoTask, MaxRuns)
    /\ UNCHANGED <<feedVars, positionVars, managerVars>>
EngineRunMatch ==
    /\ RunMatch
    /\ UNCHANGED <<feedVars, positionVars>>
    /\ UNCHANGED <<tasks, queue, task_pc, stream_pc, emitted, yielded>>
EngineRunStrategy == RunStrategy /\ UNCHANGED <<feedVars, positionVars, managerVars>>
EngineRunReturn == RunReturn /\ UNCHANGED <<feedVars, positionVars, managerVars>>

NextRun == EngineRunStart \/ EngineRunMatch \/ EngineRunStrategy \/ EngineRunReturn

\* BacktestEngine(config), then run()
SpecRun == InitBroker /\ [][NextRun]_vars

\* ------------------------------------------- one engine, several runs
\* strategies whose init may call set_capital(RerunCapital) and whose on_bar
\* does the same thing at every bar
RerunCapital == 5
RerunActs ==
    {NoAct,
     [api |-> "order", side |-> "BUY", quantity |-> 1, price |-> NoPrice],
     [api |-> "order", side |-> "BUY", quantity |-> 2, price |-> 2]}
RerunCodes ==
    {[loads |-> TRUE, init_raises |-> r, capital |-> c,
      script |-> [n \in 1..MaxBars |-> [act |-> a, raises |-> FALSE]],
      notify_order_raises |-> FALSE, notify_trade_raises |-> FALSE] :
        r \in BOOLEAN, c \in {NoPrice, RerunCapital}, a \in RerunActs}
RerunData == {<<RunBar(1, 1)>>, <<RunBar(1, 1), RunBar(2, 2)>>}

EngineRerunStart ==
    /\ RunStart(RerunCodes, RerunData, NoTask, MaxReruns)
    /\ UNCHANGED <<feedVars, positionVars, managerVars>>
EngineRerunMatch == RunMatch /\ UNCHANGED <<feedVars, positionVars, managerVars>>
EngineRerunStrategy == RunStrategy /\ UNCHANGED <<feedVars, positionVars, managerVars>>
EngineRerunReturn == RunReturn /\ UNCHANGED <<feedVars, positionVars, managerVars>>

NextRerun ==
    EngineRerunStart \/ EngineRerunMatch \/ EngineRerunStrategy \/ EngineRerunReturn

\* engine = BacktestEngine(config); engine.run(...); engine.run(...); ...
SpecRerun == InitBroker /\ [][NextRerun]_vars

\* ----------------------------------- the engine on a multi-timeframe feed
\* create_feed builds a TimeframeAlignedFeed from {interval: {symbol: bars}};
\* its snapshots are {"base": Bar or {symbol: Bar}, interval: {symbol: Bar}},
\* an interval being present from the tick at which its first candle closed
TFSnapshot(shape, populated, ts) ==
    [ts    |-> ts,
     base  |-> BaseEntry([sym \in IF shape = "mapping" THEN FeedSymbols
                                  ELSE {StrategySymbol} |-> RunBar(1, ts)]),
     other |-> IF populated
               THEN [i \in {"3m"} |-> [sym \in {StrategySymbol} |-> RunBar(1, 0)]]
               ELSE EmptyMap]
TFDataSets ==
    UNION {{[t \in 1..n |-> TFSnapshot(shapes[t], t >= k, t)] :
               shapes \in [1..n -> {"bar", "mapping"}], k \in 1..(n + 1)} :
           n \in 0..MaxBars}

\* the values of the snapshot dict that are Bars; "b.timestamp" of any other
\* value (a symbol mapping) raises AttributeError
SnapshotBars(data_item) ==
    IF data_item.base.shape = "bar"
    THEN [k \in {"base"} |-> data_item.base.bars[StrategySymbol]]
    ELSE EmptyMap
AllValuesAreBars(data_item) ==
    data_item.base.shape = "bar" /\ DOMAIN data_item.other = {}

\* steps 3.1-3.3 on a snapshot of the multi-timeframe feed: the isinstance
\* (data_item, dict) branch takes the snapshot's keys for symbols
RunMatchTF ==
    /\ run_pc = "match"
    /\ bar_index < Len(run_data)
    /\ LET data_item == run_data[bar_index + 1]
       IN  IF ~AllValuesAreBars(data_item)
           THEN \* max(b.timestamp for b in bars.values()) raises, outside any try
                /\ run_pc' = "raised"
                /\ run_result' = Raised("AttributeError")
                /\ run_log' = Append(run_log,
                                     RunRecord(strategy.code, run_data,
                                               Raised("AttributeError"), cash))
                /\ UNCHANGED <<brokerVars, current_timestamp, hook_log, equity_curve,
                               bar_history>>
           ELSE LET bars == SnapshotBars(data_item)
                    bar == bars["base"]
                    st0 == [cash |-> cash, positions |-> positions, orders |-> orders,
                            trades |-> trades, trade_counter |-> trade_counter,
                            status_log |-> status_log, remove |-> {}]
                    \* for symbol, bar in bars.items(): the one key is "base"
                    st == ProcessLoop(st0, active_orders, 1, bar, "base")
                    equity == GetValueLoop(RatInt(st.cash), DOMAIN st.positions,
                                           st.positions,
                                           [k \in DOMAIN bars |-> bars[k].close])
                IN  /\ cash' = st.cash
                    /\ positions' = st.positions
                    /\ orders' = st.orders
                    /\ trades' = st.trades
                    /\ trade_counter' = st.trade_counter
                    /\ status_log' = st.status_log
                    /\ active_orders' = SelectSeq(active_orders,
                                                  LAMBDA e : e \notin st.remove)
                    /\ last_call' = [symbol |-> "base", bar |-> bar]
                    /\ current_timestamp' = bar.timestamp
                    /\ hook_log' = hook_log
                                     \o BrokerNotifyOrder(orders, st.orders)
                                     \o AllTradeHooks(strategy.code, st.trades,
                                                      Len(trades) + 1)
                    /\ equity_curve' = Append(equity_curve,
                                              [timestamp |-> bar.timestamp,
                                               equity |-> equity])
                    /\ clock' = clock + 1
                    /\ run_pc' = "strategy"
                    /\ UNCHANGED <<config, pending_child_orders, last_cancel>>
                    /\ bar_history' = Append(bar_history, data_item)
                    /\ UNCHANGED <<run_result, run_log>>
    /\ UNCHANGED <<run_data, strategy, on_progress, bar_index, last_query>>

\* strategies that load and initialise and whose notify hooks return
TFCodes ==
    {c \in RunCodes : /\ c.loads /\ ~c.init_raises
                      /\ ~c.notify_order_raises /\ ~c.notify_trade_raises}

EngineRunStartTF ==
    /\ RunStart(TFCodes, TFDataSets, NoTask, MaxRuns)
    /\ UNCHANGED <<feedVars, positionVars, managerVars>>
EngineRunMatchTF == RunMatchTF /\ UNCHANGED <<feedVars, positionVars, managerVars>>
EngineRunStrategyTF == RunStrategy /\ UNCHANGED <<feedVars, positionVars, managerVars>>
EngineRunReturnTF == RunReturn /\ UNCHANGED <<feedVars, positionVars, managerVars>>

NextRunTF ==
    EngineRunStartTF \/ EngineRunMatchTF \/ EngineRunStrategyTF \/ EngineRunReturnTF

\* BacktestEngine(config).run(code, {interval: {symbol: bars}})
SpecRunTF == InitBroker /\ [][NextRunTF]_vars

\* ------------------------------------ the engine on several symbols
\* run(code, data) with data a dict {symbol: bars} (create_feed makes a
\* MultiFeed, each snapshot a dict of bars) or a list of bars without a
\* symbol (a SingleFeed named "DEFAULT", each snapshot one bar)
DEFAULT == "DEFAULT"

\* Subsets of the timestamps 1..MaxBars, one flat price per symbol
MultiBars == {[ts \in T |-> RunBar(p, ts)] : T \in SUBSET (1..MaxBars), p \in Prices}

\* the insertion orders of the data dict
SymbolOrders == {<<"BTCUSDT", "ETHUSDT">>, <<"ETHUSDT", "BTCUSDT">>}

\* last_valid_bars[symbol] when the loop of _align_data is at ts: the bar of
\* the symbol's latest timestamp up to ts, if it has one
BarAtOrBefore(bars, ts) ==
    LET earlier == {t \in DOMAIN bars : t <= ts}
    IN  IF earlier = {} THEN NoBar ELSE bars[SetMax(earlier)]

\* MultiFeed._align_data: one slice per timestamp of the union, each symbol
\* with its bar of that timestamp or else its previous bar (forward fill),
\* symbols in the order of the dict
RECURSIVE AlignedSlices(_, _, _)
AlignedSlices(keys, by_symbol, tss) ==
    IF tss = <<>> THEN <<>>
    ELSE LET ts == Head(tss)
             present == SelectSeq(keys,
                            LAMBDA k : BarAtOrBefore(by_symbol[k], ts) # NoBar)
         IN  <<[mode |-> "multi", keys |-> present,
                bars |-> [k \in Range(present) |-> BarAtOrBefore(by_symbol[k], ts)]]>>
             \o AlignedSlices(keys, by_symbol, Tail(tss))

MultiFeedData ==
    {AlignedSlices(keys, by_symbol,
                   Sorted(UNION {DOMAIN by_symbol[k] : k \in Range(keys)})) :
        keys \in SymbolOrders, by_symbol \in [FeedSymbols -> MultiBars]}

\* a list of bars: SingleFeed(bars) without symbol takes "DEFAULT" (a Bar has
\* no symbol attribute), and the loop makes bars = {sym: data_item}
RECURSIVE DefaultSlices(_)
DefaultSlices(bars) ==
    IF bars = <<>> THEN <<>>
    ELSE <<[mode |-> "single", keys |-> <<DEFAULT>>,
            bars |-> [k \in {DEFAULT} |-> Head(bars)]]>>
         \o DefaultSlices(Tail(bars))

DefaultFeedData ==
    {DefaultSlices(bars) :
        bars \in {b \in DataSets : \A i \in 1..Len(b) : b[i].close = b[1].close}}

MultiData == MultiFeedData \cup DefaultFeedData

\* match_symbol = None if symbol == "DEFAULT" else symbol
MatchSymbolAlways(symbol) == symbol
MatchSymbol(symbol) == IF symbol = DEFAULT THEN NoSymbol ELSE symbol

\* "for symbol, bar in bars.items(): process_orders(bar, symbol=match_symbol)",
\* each call ending with the removal of the orders it matched
RECURSIVE MatchSymbols(_, _, _, _)
MatchSymbols(st, active, keys, bars) ==
    IF keys = <<>> THEN st
    ELSE LET pass == ProcessLoop(st, active, 1, bars[Head(keys)],
                                 MatchSymbol(Head(keys)))
         IN  MatchSymbols(pass,
                          SelectSeq(active, LAMBDA e : e \notin pass.remove),
                          Tail(keys), bars)

\* max(b.timestamp for b in bars.values())
SliceTimestamp(slice) == SetMax({slice.bars[k].timestamp : k \in DOMAIN slice.bars})

\* _calculate_equity(data_item): the closes of the dict, or the one close
\* for every traded symbol
SliceEquity(st, slice) ==
    IF slice.mode = "multi"
    THEN GetValueLoop(RatInt(st.cash), DOMAIN st.positions, st.positions,
                      [k \in DOMAIN slice.bars |-> slice.bars[k].close])
    ELSE CalculateEquity(st, slice.bars[DEFAULT])

\* steps 3.1-3.3 of one iteration on a snapshot of either kind
RunMatchMulti ==
    /\ run_pc = "match"
    /\ bar_index < Len(run_data)
    /\ LET slice == run_data[bar_index + 1]
           st0 == [cash |-> cash, positions |-> positions, orders |-> orders,
                   trades |-> trades, trade_counter |-> trade_counter,
                   status_log |-> status_log, remove |-> {}]
           st == MatchSymbols(st0, active_orders, slice.keys, slice.bars)
           last == slice.keys[Len(slice.keys)]
       IN  /\ cash' = st.cash
           /\ positions' = st.positions
           /\ orders' = st.orders
           /\ trades' = st.trades
           /\ trade_counter' = st.trade_counter
           /\ status_log' = st.status_log
           /\ active_orders' = SelectSeq(active_orders, LAMBDA e : e \notin st.remove)
           /\ last_call' = [symbol |-> MatchSymbol(last), bar |-> slice.bars[last]]
           /\ current_timestamp' = SliceTimestamp(slice)
           /\ hook_log' = hook_log
                            \o AllTradeHooks(strategy.code, st.trades, Len(trades) + 1)
           /\ equity_curve' = Append(equity_curve,
                                     [timestamp |-> SliceTimestamp(slice),
                                      equity |-> SliceEquity(st, slice)])
           /\ bar_history' = Append(bar_history, slice)
    /\ clock' = clock + 1
    /\ run_pc' = "strategy"
    /\ UNCHANGED <<config, pending_child_orders, last_cancel>>
    /\ UNCHANGED <<run_data, strategy, on_progress, bar_index, run_result, run_log,
                   last_query>>

\* strategies that order on either symbol
MultiActs ==
    {NoAct,
     [api |-> "order", symbol |-> "BTCUSDT", side |-> "BUY", quantity |-> 1,
      price |-> NoPrice],
     [api |-> "order", symbol |-> "ETHUSDT", side |-> "BUY", quantity |-> 1,
      price |-> NoPrice],
     [api |-> "order", symbol |-> "ETHUSDT", side |-> "BUY", quantity |-> 1,
      price |-> 1]}
MultiCodes ==
    [loads : {TRUE}, init_raises : {FALSE}, capital : {NoPrice},
     script : [1..MaxBars -> [act : MultiActs, raises : {FALSE}]],
     notify_order_raises : {FALSE}, notify_trade_raises : {FALSE}]

MultiRunStart ==
    /\ RunStart(MultiCodes, MultiData, NoTask, MaxRuns)
    /\ UNCHANGED <<feedVars, positionVars, managerVars>>
MultiRunMatch == RunMatchMulti /\ UNCHANGED <<feedVars, positionVars, managerVars>>
MultiRunStrategy == RunStrategy /\ UNCHANGED <<feedVars, positionVars, managerVars>>
MultiRunReturn == RunReturn /\ UNCHANGED <<feedVars, positionVars, managerVars>>

NextMulti == MultiRunStart \/ MultiRunMatch \/ MultiRunStrategy \/ MultiRunReturn

SpecMulti == InitBroker /\ [][NextMulti]_vars

\* ------------------------------------------- the strategy's history API
\* get_bars(symbol=None, lookback=100), get_bar(symbol=None, offset=-1)
DefaultLookback == 100
DefaultOffset == -1
\* Python values handed to the symbol parameter
PyNone == [kind |-> "None"]
PyInt(n) == [kind |-> "int", v |-> n]
PyStr(x) == [kind |-> "str", v |-> x]
PyTruthy(x) == (x.kind = "int" /\ x.v # 0) \/ (x.kind = "str" /\ x.v # "")
\* isinstance(item, Bar), as opposed to a symbol -> Bar dict
IsBar(item) == "timestamp" \in DOMAIN item
\* "symbol in item" and item.get(symbol) of a dict snapshot
DictHas(item, symbol) == symbol.kind = "str" /\ symbol.v \in DOMAIN item
DictGet(item, symbol) == IF DictHas(item, symbol) THEN item[symbol.v] ELSE PyNone

\* seq[start:] of a Python list
SliceFrom(seq, start) ==
    LET from == IF start < 0 THEN Max(Len(seq) + start, 0) ELSE Min(start, Len(seq))
    IN  SubSeq(seq, from + 1, Len(seq))
\* the loop "for item in history_slice" of _api_get_bars
RECURSIVE SymbolBars(_, _, _)
SymbolBars(history_slice, i, symbol) ==
    IF i > Len(history_slice) THEN <<>>
    ELSE LET item == history_slice[i]
         IN  (IF IsBar(item) THEN <<item>>
              ELSE IF DictHas(item, symbol) THEN <<item[symbol.v]>>
              ELSE <<>>) \o SymbolBars(history_slice, i + 1, symbol)
\* _api_get_bars(symbol, lookback)
ApiGetBars(symbol, lookback) ==
    LET history_slice == SliceFrom(bar_history, -lookback)
    IN  IF PyTruthy(symbol) THEN SymbolBars(history_slice, 1, symbol)
        ELSE history_slice
\* _api_get_bar(symbol, offset): self._bar_history[offset], None on IndexError
ApiGetBar(symbol, offset) ==
    LET idx == IF offset < 0 THEN Len(bar_history) + offset + 1 ELSE offset + 1
    IN  IF idx < 1 \/ idx > Len(bar_history) THEN PyNone
        ELSE LET item == bar_history[idx]
             IN  IF PyTruthy(symbol) /\ ~IsBar(item) THEN DictGet(item, symbol)
                 ELSE item

\* how on_bar writes the call: the number alone, as tests/test_data_api.py
\* does (get_bars(10), get_bar(-2)), by keyword (lookback=n, offset=n), or
\* after a symbol (get_bars("BTCUSDT", n))
CallForms == {"number", "keyword", "symbol"}
\* Python's binding of the call's arguments to (symbol, second parameter)
BoundSymbol(form, n) ==
    IF form = "number" THEN PyInt(n)
    ELSE IF form = "symbol" THEN PyStr(StrategySymbol) ELSE PyNone
BoundSecond(form, n, default) == IF form = "number" THEN default ELSE n

Lookbacks == 1..(MaxBars + 1)
Offsets == {-n : n \in 1..(MaxBars + 1)}

\* on_bar of the current snapshot calls self.get_bars(...)
StrategyGetBars ==
    /\ run_pc = "strategy"
    /\ \E form \in CallForms, n \in Lookbacks :
          last_query' = [api |-> "get_bars", form |-> form, n |-> n,
                         k |-> bar_index + 1,
                         ret |-> ApiGetBars(BoundSymbol(form, n),
                                            BoundSecond(form, n, DefaultLookback))]
    /\ UNCHANGED <<feedVars, brokerVars, positionVars, managerVars>>
    /\ UNCHANGED <<run_pc, run_data, strategy, on_progress, bar_index,
                   current_timestamp, equity_curve, hook_log, run_result, run_log,
                   bar_history>>
\* on_bar of the current snapshot calls self.get_bar(...)
StrategyGetBar ==
    /\ run_pc = "strategy"
    /\ \E form \in CallForms, n \in Offsets :
          last_query' = [api |-> "get_bar", form |-> form, n |-> n,
                         k |-> bar_index + 1,
                         ret |-> ApiGetBar(BoundSymbol(form, n),
                                           BoundSecond(form, n, DefaultOffset))]
    /\ UNCHANGED <<feedVars, brokerVars, positionVars, managerVars>>
    /\ UNCHANGED <<run_pc, run_data, strategy, on_progress, bar_index,
                   current_timestamp, equity_curve, hook_log, run_result, run_log,
                   bar_history>>

\* a strategy that trades nothing
DataCodes ==
    {[loads |-> TRUE, init_raises |-> FALSE, capital |-> NoPrice,
      script |-> [n \in 1..MaxBars |-> [act |-> NoAct, raises |-> FALSE]],
      notify_order_raises |-> FALSE, notify_trade_raises |-> FALSE]}
DataRunStart ==
    /\ RunStart(DataCodes, DataSets, NoTask, MaxRuns)
    /\ UNCHANGED <<feedVars, positionVars, managerVars>>
DataRunMatch == RunMatch /\ UNCHANGED <<feedVars, positionVars, managerVars>>
DataRunStrategy == RunStrategy /\ UNCHANGED <<feedVars, positionVars, managerVars>>
DataRunReturn == RunReturn /\ UNCHANGED <<feedVars, positionVars, managerVars>>
NextData ==
    \/ DataRunStart \/ DataRunMatch \/ DataRunStrategy \/ DataRunReturn
    \/ StrategyGetBars \/ StrategyGetBar
\* a run whose on_bar looks back at the history
SpecData == InitBroker /\ [][NextData]_vars

\* ------------------------------------------------- the backtest manager
MaxTasks == 2           \* start_backtest calls
MaxStreams == 2         \* stream_events calls

TaskIds == 1..MaxTasks
\* the config dicts handed to start_backtest: a good one, one with a
\* negative capital, one with a key BacktestConfig does not have
GoodConfig == [initial_capital |-> InitialCapital, commission_rate |-> 1,
               slippage |-> 1]
NegativeCapital == -1
ManagerConfigs ==
    {GoodConfig,
     [GoodConfig EXCEPT !.initial_capital = NegativeCapital],
     [initial_capital |-> InitialCapital, commission_rate |-> 1,
      slippage |-> 1, leverage |-> 1]}
\* BacktestConfig(**config): a dataclass without __post_init__; only an
\* unexpected keyword raises (TypeError)
ConfigFields == {"initial_capital", "commission_rate", "slippage"}
BacktestConfigRaises(cfg) == ~(DOMAIN cfg \subseteq ConfigFields)

\* the strategies handed to start_backtest: one that does not load, one
\* whose init raises, one whose on_bar returns, one whose on_bar raises
ManagerCode(loads, init_raises, on_bar_raises) ==
    [loads |-> loads, init_raises |-> init_raises, capital |-> NoPrice,
     script |-> [n \in 1..MaxBars |-> [act |-> NoAct, raises |-> on_bar_raises]],
     notify_order_raises |-> FALSE, notify_trade_raises |-> FALSE]
ManagerCodes ==
    {ManagerCode(FALSE, FALSE, FALSE), ManagerCode(TRUE, TRUE, FALSE),
     ManagerCode(TRUE, FALSE, FALSE), ManagerCode(TRUE, FALSE, TRUE)}
ManagerData == {<<>>, <<RunBar(1, 1)>>, <<RunBar(1, 1), RunBar(2, 2)>>}

ResultEvent(result) == [type |-> "result", data |-> result]
ErrorEvent(message) == [type |-> "error", data |-> message]
\* the message of the error event for an unknown task id
TASK_NOT_FOUND == "task not found"
IsTerminal(event) == event.type \in {"result", "error"}

\* queue.put / queue.put_nowait on the task's unbounded asyncio.Queue
QueuePut(task, event) ==
    /\ queue' = [queue EXCEPT ![task] = Append(@, event)]
    /\ emitted' = [emitted EXCEPT ![task] = Append(@, event)]

\* the worker of every earlier task has left engine.run
WorkerFree ==
    \A t \in 1..Len(task_pc) : task_pc[t].pc \in {"awaited", "done", "failed"}

\* start_backtest(strategy_code, data, config): registers the task and
\* schedules _run_task
StartBacktest ==
    /\ Len(task_pc) < MaxTasks
    /\ WorkerFree
    /\ \E code \in ManagerCodes, data \in ManagerData, cfg \in ManagerConfigs :
          LET task_id == Len(task_pc) + 1
          IN  /\ tasks' = tasks \cup {task_id}
              /\ queue' = Append(queue, <<>>)
              /\ emitted' = Append(emitted, <<>>)
              /\ task_pc' = Append(task_pc, [pc |-> "created", code |-> code,
                                             data |-> data, config |-> cfg])
              /\ loop_ready' = Append(loop_ready,
                                      [call |-> "_run_task", task |-> task_id])
    /\ UNCHANGED <<stream_pc, yielded>>
    /\ UNCHANGED <<feedVars, brokerVars, positionVars, engineVars>>

\* the event loop runs its ready callbacks in the order they were scheduled
NextCallbackLast(ready) == Len(ready)
NextCallback(ready) == 1
Callback == loop_ready[NextCallback(loop_ready)]
RestReady ==
    SubSeq(loop_ready, 1, NextCallback(loop_ready) - 1)
        \o SubSeq(loop_ready, NextCallback(loop_ready) + 1, Len(loop_ready))

\* a progress report: loop.call_soon_threadsafe(queue.put_nowait, {...})
LoopPutNowait ==
    /\ loop_ready # <<>>
    /\ Callback.call = "put_nowait"
    /\ QueuePut(Callback.task, Callback.event)
    /\ loop_ready' = RestReady
    /\ UNCHANGED <<tasks, task_pc, stream_pc, yielded>>
    /\ UNCHANGED <<feedVars, brokerVars, positionVars, engineVars>>

\* _run_task up to "await loop.run_in_executor(None, engine.run, ...)"
LoopRunTask ==
    /\ loop_ready # <<>>
    /\ Callback.call = "_run_task"
    /\ LET t == Callback.task
           cfg == task_pc[t].config
       IN  IF t \notin tasks
           THEN \* self.tasks[task_id] raises KeyError before the try
                /\ task_pc' = [task_pc EXCEPT ![t].pc = "failed"]
                /\ UNCHANGED <<queue, emitted, config>>
           ELSE IF BacktestConfigRaises(cfg)
           THEN /\ QueuePut(t, ErrorEvent("TypeError"))
                /\ task_pc' = [task_pc EXCEPT ![t].pc = "done"]
                /\ UNCHANGED config
           ELSE /\ config' = cfg
                /\ task_pc' = [task_pc EXCEPT ![t].pc = "submitted"]
                /\ UNCHANGED <<queue, emitted>>
    /\ loop_ready' = RestReady
    /\ UNCHANGED <<tasks, stream_pc, yielded>>
    /\ UNCHANGED <<cash, positions, orders, active_orders, pending_child_orders,
                   trade_counter, trades, status_log, clock, last_call, last_cancel>>
    /\ UNCHANGED <<feedVars, positionVars, engineVars>>

\* the worker thread enters engine.run(code, data, thread_safe_progress)
WorkerRunStart ==
    /\ \E t \in 1..Len(task_pc) :
          /\ task_pc[t].pc = "submitted"
          /\ RunStart({task_pc[t].code}, {task_pc[t].data}, t, MaxTasks)
          /\ task_pc' = [task_pc EXCEPT ![t].pc = "running"]
    /\ UNCHANGED <<tasks, queue, loop_ready, stream_pc, emitted, yielded>>
    /\ UNCHANGED <<feedVars, positionVars>>
WorkerRunMatch ==
    /\ RunMatch
    /\ UNCHANGED <<tasks, queue, task_pc, stream_pc, emitted, yielded>>
    /\ UNCHANGED <<feedVars, positionVars>>
WorkerRunStrategy == RunStrategy /\ UNCHANGED <<feedVars, positionVars, managerVars>>
WorkerRunReturn == RunReturn /\ UNCHANGED <<feedVars, positionVars, managerVars>>
\* engine.run returned or raised: the executor's future completes, which
\* schedules the resumption of _run_task on the loop
WorkerDone ==
    /\ \E t \in 1..Len(task_pc) :
          /\ task_pc[t].pc = "running"
          /\ run_pc \in {"returned", "raised"}
          /\ task_pc' = [task_pc EXCEPT ![t].pc = "awaited"]
          /\ loop_ready' = Append(loop_ready,
                                  [call |-> "wakeup", task |-> t,
                                   outcome |-> run_result])
    /\ UNCHANGED <<tasks, queue, stream_pc, emitted, yielded>>
    /\ UNCHANGED <<feedVars, brokerVars, positionVars, engineVars>>

\* _run_task after the await: "await queue.put(result)", or the except
\* branch "await queue.put(error)" when engine.run raised
LoopWakeup ==
    /\ loop_ready # <<>>
    /\ Callback.call = "wakeup"
    /\ LET t == Callback.task
           outcome == Callback.outcome
       IN  /\ QueuePut(t, IF outcome.kind = "raised"
                          THEN ErrorEvent(outcome.error)
                          ELSE ResultEvent(outcome))
           /\ task_pc' = [task_pc EXCEPT ![t].pc = "done"]
    /\ loop_ready' = RestReady
    /\ UNCHANGED <<tasks, stream_pc, yielded>>
    /\ UNCHANGED <<feedVars, brokerVars, positionVars, engineVars>>

\* stream_events(task_id) up to its first await: an unknown id yields one
\* error and returns. A client learns a task id from start_backtest's
\* response, which is sent after _run_task has taken its first step.
StreamEvents ==
    /\ Len(stream_pc) < MaxStreams
    /\ \E task_id \in TaskIds :
          /\ task_id \in tasks => task_pc[task_id].pc # "created"
          /\ IF task_id \notin tasks
             THEN /\ stream_pc' = Append(stream_pc,
                                         [task |-> task_id, pc |-> "returned"])
                  /\ yielded' = Append(yielded, <<ErrorEvent(TASK_NOT_FOUND)>>)
             ELSE /\ stream_pc' = Append(stream_pc,
                                         [task |-> task_id, pc |-> "get"])
                  /\ yielded' = Append(yielded, <<>>)
    /\ UNCHANGED <<tasks, queue, loop_ready, task_pc, emitted>>
    /\ UNCHANGED <<feedVars, brokerVars, positionVars, engineVars>>

\* "event = await queue.get(); yield ...; if terminal: break", and the
\* finally block after the break
StreamGet ==
    /\ \E s \in 1..Len(stream_pc) :
          LET t == stream_pc[s].task
          IN  /\ stream_pc[s].pc = "get"
              /\ queue[t] # <<>>
              /\ queue' = [queue EXCEPT ![t] = Tail(@)]
              /\ yielded' = [yielded EXCEPT ![s] = Append(@, Head(queue[t]))]
              /\ IF IsTerminal(Head(queue[t]))
                 THEN /\ stream_pc' = [stream_pc EXCEPT ![s].pc = "finished"]
                      /\ tasks' = tasks \ {t}
                 ELSE UNCHANGED <<stream_pc, tasks>>
    /\ UNCHANGED <<loop_ready, task_pc, emitted>>
    /\ UNCHANGED <<feedVars, brokerVars, positionVars, engineVars>>

\* the client goes away while the generator waits: the generator is closed
\* and its finally block removes the task's entry
StreamClose ==
    /\ \E s \in 1..Len(stream_pc) :
          /\ stream_pc[s].pc = "get"
          /\ stream_pc' = [stream_pc EXCEPT ![s].pc = "closed"]
          /\ tasks' = tasks \ {stream_pc[s].task}
    /\ UNCHANGED <<queue, loop_ready, task_pc, emitted, yielded>>
    /\ UNCHANGED <<feedVars, brokerVars, positionVars, engineVars>>

LoopStep == LoopPutNowait \/ LoopRunTask \/ LoopWakeup
WorkerStep ==
    WorkerRunStart \/ WorkerRunMatch \/ WorkerRunStrategy \/ WorkerRunReturn
        \/ WorkerDone
NextManager ==
    \/ StartBacktest
    \/ LoopPutNowait \/ LoopRunTask \/ LoopWakeup
    \/ WorkerRunStart \/ WorkerRunMatch \/ WorkerRunStrategy \/ WorkerRunReturn
    \/ WorkerDone
    \/ StreamEvents \/ StreamGet \/ StreamClose

\* BacktestManager(), its event loop and the executor's worker
SpecManager == InitBroker /\ [][NextManager]_vars
\* the loop runs every ready callback, the worker thread keeps running and a
\* waiting generator is resumed when its queue has an event; whether a
\* client ever asks for the stream, or goes away, is the client's choice
SpecManagerFair ==
    /\ SpecManager
    /\ WF_vars(LoopStep)
    /\ WF_vars(WorkerStep)
    /\ WF_vars(StreamGet)

\* ----------------------------------------------------- broker properties
OrderIds == 1..Len(orders)
InActive(id) == id \in Range(active_orders)
InActiveAfter(id) == id \in Range(active_orders')
IsSubmitStep == Len(orders') = Len(orders) + 1
IsProcessStep == clock' = clock + 1
\* the call of a process step covers the order's symbol
Covered(o) == last_call'.symbol = NoSymbol \/ o.symbol = last_call'.symbol
TradesOf(tt, id) == {i \in 1..Len(tt) : tt[i].order_id = id}

\* price * quantity + price * quantity * commission_rate, in MoneyScale
\* units, for a price given in currency units
CostWithFee(price, quantity) ==
    price * quantity * MoneyScale + price * quantity * RateDen * config.commission_rate

\* C4: submit_order appends the order to the order log and then either sets
\* it ACCEPTED and adds it to the active set, or sets it REJECTED with a
\* non-empty reason and leaves it out of the active set. The pre-trade check
\* uses the limit price, else the trigger price: a BUY, or a SELL without a
\* long position, is rejected when price * quantity + fee > cash; an order
\* with neither price is not checked.
C4_SubmitStep ==
    IsSubmitStep =>
        LET o == orders'[Len(orders')]
            ref == IF o.price # NoPrice THEN o.price ELSE o.trigger_price
            short == /\ ref # NoPrice
                     /\ o.side = "BUY" \/ ~HasLong(positions, o.symbol)
                     /\ CostWithFee(ref, o.quantity) > cash
        IN  /\ orders' = Append(orders, o)
            /\ o.id = Len(orders')
            /\ status_log'[o.id] \in {<<"CREATED", "SUBMITTED", "ACCEPTED">>,
                                      <<"CREATED", "SUBMITTED", "REJECTED">>}
            /\ o.status = IF short THEN "REJECTED" ELSE "ACCEPTED"
            /\ o.status = "ACCEPTED" =>
                  active_orders' = Append(active_orders, o.id)
            /\ o.status = "REJECTED" =>
                  /\ o.error_msg # ""
                  /\ active_orders' = active_orders
                  /\ ~InActiveAfter(o.id)
            /\ cash' = cash /\ positions' = positions /\ trades' = trades
C4_Submit == [][C4_SubmitStep]_vars

\* a STOP_LIMIT order (both prices set) is rejected by the pre-trade check
\* while an earlier order was accepted
C4_Witness ==
    \E id \in OrderIds :
        /\ orders[id].order_type = "STOP_LIMIT"
        /\ orders[id].price # orders[id].trigger_price
        /\ status_log[id] = <<"CREATED", "SUBMITTED", "REJECTED">>
        /\ orders[id].error_msg # ""
        /\ \E other \in OrderIds : orders[other].status = "FILLED"

\* the status changes the lifecycle allows
LifecycleClaimed ==
    {<<"CREATED", "SUBMITTED">>, <<"SUBMITTED", "REJECTED">>,
     <<"SUBMITTED", "ACCEPTED">>, <<"ACCEPTED", "FILLED">>,
     <<"ACCEPTED", "CANCELED">>, <<"ACCEPTED", "EXPIRED">>}
FollowsLifecycle(allowed) ==
    \A id \in OrderIds :
        /\ status_log[id][1] = "CREATED"
        /\ status_log[id][Len(status_log[id])] = orders[id].status
        /\ \A i \in 1..(Len(status_log[id]) - 1) :
              <<status_log[id][i], status_log[id][i + 1]>> \in allowed

\* C5 as stated: every order follows created -> submitted -> (rejected |
\* accepted) -> (filled | canceled | expired); REJECTED is reached only
\* directly from SUBMITTED, an ACCEPTED order only moves to FILLED, CANCELED
\* or EXPIRED, and FILLED, CANCELED, REJECTED, EXPIRED are never left.
C5_Original == FollowsLifecycle(LifecycleClaimed)

\* C5 amended: as C5, except that REJECTED is also reached from ACCEPTED,
\* when _execute_fill finds the funds insufficient at fill time.
C5_Lifecycle == FollowsLifecycle(LifecycleClaimed \cup {<<"ACCEPTED", "REJECTED">>})

\* one order was rejected at fill time, another canceled after acceptance
C5_Witness ==
    /\ \E id \in OrderIds :
          status_log[id] = <<"CREATED", "SUBMITTED", "ACCEPTED", "REJECTED">>
    /\ \E id \in OrderIds :
          status_log[id] = <<"CREATED", "SUBMITTED", "ACCEPTED", "CANCELED">>

\* C6 as stated: an order rejected for insufficient funds never entered
\* matching: it was never a member of the active set (never ACCEPTED), of any
\* order type, MARKET included.
C6_Original ==
    \A id \in OrderIds :
        orders[id].status = "REJECTED" =>
            /\ orders[id].error_msg # ""
            /\ \A i \in 1..Len(status_log[id]) : status_log[id][i] # "ACCEPTED"

\* signed cash flow and quantity of the trades tt[from..]
RECURSIVE TradeCash(_, _)
TradeCash(tt, from) ==
    IF from > Len(tt) THEN 0
    ELSE (IF tt[from].side = "BUY"
          THEN -(tt[from].price * tt[from].quantity * RateDen + tt[from].fee)
          ELSE tt[from].price * tt[from].quantity * RateDen - tt[from].fee)
         + TradeCash(tt, from + 1)
RECURSIVE TradeQty(_, _, _)
TradeQty(tt, from, symbol) ==
    IF from > Len(tt) THEN 0
    ELSE (IF tt[from].symbol # symbol THEN 0
          ELSE IF tt[from].side = "BUY" THEN tt[from].quantity
          ELSE -tt[from].quantity)
         + TradeQty(tt, from + 1, symbol)
PositionQty(pp, symbol) == IF symbol \in DOMAIN pp THEN pp[symbol].quantity ELSE 0

\* C6 amended: an order short of funds becomes REJECTED with a reason,
\* produces no Trade and leaves cash and positions unchanged, and is out of
\* the active set when the call returns. If the shortage shows in the
\* pre-trade check of submit_order the order never enters the active set or
\* the matching pass; if it shows only in _execute_fill (a MARKET order, or an
\* order whose check passed at submit time) the order was in the active set
\* and was matched before being rejected.
C6_RejectStep ==
    /\ \A id \in 1..Len(orders') :
          orders'[id].status = "REJECTED" =>
              /\ orders'[id].error_msg = BACKTEST_INSUFFICIENT_FUNDS
              /\ ~InActiveAfter(id)
              /\ TradesOf(trades', id) = {}
              /\ orders'[id].filled_quantity = 0
              /\ id \in OrderIds /\ orders[id].status = "REJECTED" =>
                    orders'[id] = orders[id]
              /\ id \in OrderIds /\ orders[id].status # "REJECTED" =>
                    /\ IsProcessStep /\ InActive(id) /\ Covered(orders[id])
                    /\ orders[id].status = "ACCEPTED"
              /\ id \notin OrderIds =>
                    /\ status_log'[id] = <<"CREATED", "SUBMITTED", "REJECTED">>
                    /\ ~orders'[id].triggered
    \* cash and positions move by the trades of the step and by nothing else
    /\ cash' - cash = TradeCash(trades', Len(trades) + 1)
    /\ \A s \in Symbols :
          PositionQty(positions', s) - PositionQty(positions, s)
             = TradeQty(trades', Len(trades) + 1, s)
    /\ Len(trades') = Len(trades) => positions' = positions
C6_Rejection == [][C6_RejectStep]_vars

\* a MARKET order was accepted, matched and rejected at fill time while the
\* other order of the same call filled
C6_Witness ==
    \E id \in OrderIds :
        /\ orders[id].order_type = "MARKET"
        /\ status_log[id] = <<"CREATED", "SUBMITTED", "ACCEPTED", "REJECTED">>
        /\ \E other \in OrderIds :
              /\ orders[other].status = "FILLED"
              /\ \E t \in TradesOf(trades, other) :
                    trades[t].timestamp = last_call.bar.timestamp
        /\ last_call.bar.timestamp = clock

\* close + slippage * close (BUY), close - slippage * close (SELL), in
\* PriceScale units
CloseWithSlippage(o, bar) ==
    IF o.side = "BUY" THEN bar.close * PriceScale + config.slippage * bar.close
    ELSE bar.close * PriceScale - config.slippage * bar.close
\* the LIMIT rule and the LIMIT fill price, in PriceScale units
LimitReached(o, bar) ==
    IF o.side = "BUY" THEN bar.low <= o.price ELSE bar.high >= o.price
LimitRulePrice(o, bar) ==
    IF o.side = "BUY" THEN Min(o.price, bar.open) * PriceScale
    ELSE Max(o.price, bar.open) * PriceScale
StopReached(o, bar) ==
    IF o.side = "BUY" THEN bar.high >= o.trigger_price
    ELSE bar.low <= o.trigger_price
\* the funds check of a fill at fill_price against the account before the call
FundsShort(o, fill_price) ==
    /\ o.side = "BUY" \/ ~HasLong(positions, o.symbol)
    /\ fill_price * o.quantity * RateDen
          + fill_price * o.quantity * config.commission_rate > cash

\* the order stays as it was, in the active set
Untouched(id) == orders'[id] = orders[id] /\ InActiveAfter(id)
StaysPending(id) ==
    /\ orders'[id].status = "ACCEPTED" /\ InActiveAfter(id)
    /\ orders'[id].filled_quantity = 0 /\ TradesOf(trades', id) = {}
\* the order is FILLED at fill_price by this call, with its one Trade
FilledAt(id, fill_price) ==
    /\ orders'[id].status = "FILLED"
    /\ orders'[id].filled_avg_price = fill_price
    /\ orders'[id].filled_quantity = orders[id].quantity
    /\ ~InActiveAfter(id)
    /\ \E t \in TradesOf(trades', id) :
          /\ t > Len(trades)
          /\ trades'[t].price = fill_price
          /\ trades'[t].timestamp = last_call'.bar.timestamp
RejectedAtFill(id) ==
    /\ orders'[id].status = "REJECTED"
    /\ orders'[id].error_msg = BACKTEST_INSUFFICIENT_FUNDS
    /\ ~InActiveAfter(id)
    /\ TradesOf(trades', id) = {}
\* matched at fill_price: filled at it, or rejected by the funds check of the
\* fill; that funds check is decided by the account before the call when the order is
\* the only active one
MatchedAt(id, fill_price) ==
    /\ FilledAt(id, fill_price) \/ RejectedAtFill(id)
    /\ Len(active_orders) = 1 =>
          (RejectedAtFill(id) <=> FundsShort(orders[id], fill_price))

ActiveOfType(id, type) ==
    InActive(id) /\ orders[id].order_type = type /\ Covered(orders[id])

\* the triggered flag never reverts, in any call
TriggeredSticks == \A id \in OrderIds : orders[id].triggered => orders'[id].triggered

\* C7 as stated: an untriggered STOP becomes triggered in a process_orders
\* call whose bar has high >= trigger (BUY) or low <= trigger (SELL) and is
\* not filled in that call; the flag never reverts; a triggered STOP fills in
\* the next call for its symbol at close +- slippage * close.
C7_OriginalStep ==
    /\ TriggeredSticks
    /\ IsProcessStep =>
          \A id \in OrderIds :
              ActiveOfType(id, "STOP") =>
                  IF ~orders[id].triggered
                  THEN /\ StaysPending(id)
                       /\ orders'[id].triggered = StopReached(orders[id], last_call'.bar)
                  ELSE FilledAt(id, CloseWithSlippage(orders[id], last_call'.bar))
C7_Original == [][C7_OriginalStep]_vars

\* C7 amended: as C7, except that the triggered STOP is matched in the next
\* call for its symbol at close +- slippage * close and leaves the active set:
\* it fills at that price unless the funds check of the fill fails, and then
\* it is REJECTED.
C7_StopStep ==
    /\ TriggeredSticks
    /\ IsProcessStep =>
          \A id \in OrderIds :
              ActiveOfType(id, "STOP") =>
                  IF ~orders[id].triggered
                  THEN /\ StaysPending(id)
                       /\ orders'[id].triggered = StopReached(orders[id], last_call'.bar)
                  ELSE MatchedAt(id, CloseWithSlippage(orders[id], last_call'.bar))
C7_StopTwoPhase == [][C7_StopStep]_vars

\* a SELL STOP triggered by the first call was filled by the second, whose
\* bar does not reach the trigger
C7_Witness ==
    \E id \in OrderIds :
        /\ orders[id].order_type = "STOP" /\ orders[id].side = "SELL"
        /\ orders[id].status = "FILLED" /\ orders[id].triggered
        /\ clock = 2 /\ orders[id].created_at = 0
        /\ last_call.bar.low > orders[id].trigger_price
        /\ orders[id].filled_avg_price = CloseWithSlippage(orders[id], last_call.bar)

\* C8 as stated: a BUY LIMIT fills in a process_orders call iff low <= limit,
\* at min(limit, open); a SELL LIMIT fills iff high >= limit, at max(limit,
\* open); an unfilled LIMIT order stays ACCEPTED in the active set.
C8_OriginalStep ==
    IsProcessStep =>
        \A id \in OrderIds :
            ActiveOfType(id, "LIMIT") =>
                IF LimitReached(orders[id], last_call'.bar)
                THEN FilledAt(id, LimitRulePrice(orders[id], last_call'.bar))
                ELSE StaysPending(id)
C8_Original == [][C8_OriginalStep]_vars

\* C8 amended: a BUY LIMIT is matched iff low <= limit, at min(limit, open), a
\* SELL LIMIT iff high >= limit, at max(limit, open); a matched order fills at
\* that price (never above the limit for a BUY, never below it for a SELL)
\* unless the funds check of the fill rejects it; a LIMIT order that is not
\* matched stays ACCEPTED in the active set.
C8_LimitStep ==
    IsProcessStep =>
        \A id \in OrderIds :
            ActiveOfType(id, "LIMIT") =>
                IF LimitReached(orders[id], last_call'.bar)
                THEN /\ MatchedAt(id, LimitRulePrice(orders[id], last_call'.bar))
                     /\ orders'[id].status = "FILLED" =>
                           IF orders[id].side = "BUY"
                           THEN orders'[id].filled_avg_price
                                   <= orders[id].price * PriceScale
                           ELSE orders'[id].filled_avg_price
                                   >= orders[id].price * PriceScale
                ELSE Untouched(id)
C8_LimitMatching == [][C8_LimitStep]_vars

\* a BUY LIMIT was filled below its limit, at the open of a bar that gapped
\* through it
C8_Witness ==
    \E id \in OrderIds :
        /\ orders[id].order_type = "LIMIT" /\ orders[id].side = "BUY"
        /\ orders[id].status = "FILLED"
        /\ orders[id].filled_avg_price = last_call.bar.open * PriceScale
        /\ last_call.bar.open < orders[id].price
        /\ \E t \in TradesOf(trades, id) : trades[t].timestamp = last_call.bar.timestamp

\* C9 as stated: a MARKET order in the active set is filled by the first
\* process_orders call that covers its symbol, at close +- slippage * close,
\* with fee fill_price * quantity * commission_rate.
C9_OriginalStep ==
    IsProcessStep =>
        \A id \in OrderIds :
            InActive(id) /\ orders[id].order_type = "MARKET" =>
                IF Covered(orders[id])
                THEN LET fill_price == CloseWithSlippage(orders[id], last_call'.bar)
                     IN  /\ FilledAt(id, fill_price)
                         /\ orders'[id].fee
                               = fill_price * orders[id].quantity * config.commission_rate
                ELSE Untouched(id)
C9_Original == [][C9_OriginalStep]_vars

\* C9 amended: a MARKET order in the active set is matched by the first
\* process_orders call that covers its symbol, at close +- slippage * close,
\* and leaves the active set in that call: it is filled at that price with fee
\* fill_price * quantity * commission_rate, unless the funds check of the fill
\* fails, and then it is REJECTED.
C9_MarketStep ==
    IsProcessStep =>
        \A id \in OrderIds :
            InActive(id) /\ orders[id].order_type = "MARKET" =>
                IF Covered(orders[id])
                THEN LET fill_price == CloseWithSlippage(orders[id], last_call'.bar)
                     IN  /\ MatchedAt(id, fill_price)
                         /\ orders'[id].status = "FILLED" =>
                               /\ orders'[id].fee
                                     = fill_price * orders[id].quantity
                                          * config.commission_rate
                               /\ \A t \in TradesOf(trades', id) :
                                     trades'[t].fee = orders'[id].fee
                ELSE Untouched(id)
C9_MarketFill == [][C9_MarketStep]_vars

\* a MARKET order submitted first was passed over by a call for the other
\* symbol and filled, with a fee, by the next call, which covers its symbol
C9_Witness ==
    \E id \in OrderIds :
        /\ orders[id].order_type = "MARKET" /\ orders[id].status = "FILLED"
        /\ orders[id].created_at = 0 /\ clock = 2
        /\ orders[id].fee > 0
        /\ last_call.symbol = orders[id].symbol
        /\ \E t \in TradesOf(trades, id) : trades[t].timestamp = 2

\* C10: a STOP_LIMIT order is never filled in the call in which it becomes
\* triggered; once triggered it fills only in a later call whose bar satisfies
\* the LIMIT rule for its limit price, at min(limit, open) (BUY) or
\* max(limit, open) (SELL); a triggered STOP_LIMIT whose limit is not reached
\* stays active and unfilled.
C10_StopLimitStep ==
    IsProcessStep =>
        \A id \in OrderIds :
            ActiveOfType(id, "STOP_LIMIT") =>
                IF ~orders[id].triggered
                THEN /\ StaysPending(id)
                     /\ orders'[id].triggered = StopReached(orders[id], last_call'.bar)
                ELSE /\ orders'[id].triggered
                     /\ orders'[id].status = "FILLED" =>
                           /\ LimitReached(orders[id], last_call'.bar)
                           /\ FilledAt(id, LimitRulePrice(orders[id], last_call'.bar))
                     /\ ~LimitReached(orders[id], last_call'.bar) => Untouched(id)
C10_StopLimit == [][C10_StopLimitStep]_vars

\* a SELL STOP_LIMIT triggered by the first call was filled by the second at
\* the open, above its limit
C10_Witness ==
    \E id \in OrderIds :
        /\ orders[id].order_type = "STOP_LIMIT" /\ orders[id].side = "SELL"
        /\ orders[id].status = "FILLED" /\ orders[id].triggered
        /\ clock = 2 /\ orders[id].created_at = 0
        /\ orders[id].filled_avg_price = last_call.bar.open * PriceScale
        /\ last_call.bar.open > orders[id].price

\* the trades of the log agree with the orders: one trade per FILLED order,
\* none for any other order, each with the fields of its order
TradesMatchOrders(oo, tt) ==
    /\ Len(tt) = Cardinality({id \in 1..Len(oo) : oo[id].status = "FILLED"})
    /\ \A id \in 1..Len(oo) :
          Cardinality(TradesOf(tt, id)) = IF oo[id].status = "FILLED" THEN 1 ELSE 0
    /\ \A t \in 1..Len(tt) :
          /\ tt[t].order_id \in 1..Len(oo)
          /\ tt[t].symbol = oo[tt[t].order_id].symbol
          /\ tt[t].side = oo[tt[t].order_id].side
          /\ tt[t].quantity = oo[tt[t].order_id].quantity

\* C11: over any sequence of broker operations a Trade is created exactly
\* once for each order that reaches FILLED and for no other order: the number
\* of trades returned by all process_orders calls equals the number of FILLED
\* orders, each trade carries the order_id, symbol, side and quantity of its
\* order, and a FILLED order is never matched again by a later call (it is
\* outside the active set, and the order and its trade stay as they are).
C11_TradeStep ==
    /\ TradesMatchOrders(orders', trades')
    /\ \A id \in OrderIds :
          orders[id].status = "FILLED" =>
              /\ ~InActive(id) /\ ~InActiveAfter(id)
              /\ orders'[id] = orders[id]
              /\ TradesOf(trades', id) = TradesOf(trades, id)
              /\ \A t \in TradesOf(trades, id) : trades'[t] = trades[t]
C11_TradeOnce == [][C11_TradeStep]_vars

\* an order filled by the first call went through a second call that covers
\* its symbol and still has its one trade
C11_Witness ==
    /\ clock = 2 /\ Len(trades) = 1
    /\ \E id \in OrderIds :
          /\ orders[id].status = "FILLED"
          /\ trades[1].order_id = id /\ trades[1].timestamp = 1
          /\ last_call.symbol \in {NoSymbol, orders[id].symbol}

\* C36: whenever submit_order, cancel_order or process_orders has returned,
\* the active set holds exactly the logged orders whose status is ACCEPTED
\* (so no FILLED, CANCELED or REJECTED one), each of them once, and
\* get_order(id) is the logged order for every submitted id
C36_ActiveSet ==
    /\ Range(active_orders)
          = {id \in 1..Len(orders) : orders[id].status = "ACCEPTED"}
    /\ \A i, j \in 1..Len(active_orders) :
          active_orders[i] = active_orders[j] => i = j
    /\ \A id \in 1..Len(orders) : orders[id].id = id

\* of two submitted orders the first was filled by a process_orders call that
\* left the second one, not matched, in the active set
C36_Witness ==
    /\ Len(orders) = 2
    /\ orders[1].status = "FILLED"
    /\ orders[2].status = "ACCEPTED"
    /\ orders[2].created_at < clock
    /\ active_orders = <<2>>

\* C37: cash is never negative, whatever orders are submitted and whatever
\* bars process_orders is called with (capital >= 0, prices >= 0, commission
\* rate and slippage at most 0.1): a BUY whose cost plus fee exceeds cash is
\* rejected at fill
C37_CashNonNegative == cash >= 0

\* a BUY was filled and paid for, and a second BUY, accepted at submit, was
\* rejected at fill because the remaining cash did not cover it
C37_Witness ==
    /\ Len(orders) = 2
    /\ orders[1].side = "BUY" /\ orders[1].status = "FILLED"
    /\ orders[2].side = "BUY" /\ orders[2].status = "REJECTED"
    /\ status_log[2] = <<"CREATED", "SUBMITTED", "ACCEPTED", "REJECTED">>
    /\ cash < InitialCapital * MoneyScale

\* ---------------------------------------------- linked order properties
FillsInStep(id) == orders[id].status # "FILLED" /\ orders'[id].status = "FILLED"
\* position of an order in the active list before the call (0 when absent)
ActiveIndex(id) ==
    IF InActive(id) THEN CHOOSE i \in 1..Len(active_orders) : active_orders[i] = id
    ELSE 0

\* C12: when an order A with oco_id = B fills in a process_orders call and B
\* is still active, B is CANCELED and removed from the active set within that
\* call (B is no longer active at A's fill only if it was matched before A in
\* the same pass and filled or was rejected); B is not in the active set when
\* the call returns, and a CANCELED order never fills afterwards.
C12_OcoStep ==
    /\ \A a \in OrderIds :
          LET b == orders[a].oco_id
          IN  FillsInStep(a) /\ b \in OrderIds /\ InActive(b) =>
                  /\ ~InActiveAfter(b)
                  /\ \/ /\ orders'[b].status = "CANCELED"
                        /\ TradesOf(trades', b) = {}
                     \/ /\ orders'[b].status \in {"FILLED", "REJECTED"}
                        /\ ActiveIndex(b) < ActiveIndex(a)
    /\ \A b \in OrderIds :
          orders[b].status = "CANCELED" =>
              /\ orders'[b] = orders[b]
              /\ ~InActiveAfter(b)
              /\ TradesOf(trades', b) = {}
ChildrenOf(oo, p) == {c \in 1..Len(oo) : oo[c].parent_id = p}
Dormant(oo, aa, pp, c) ==
    /\ c \notin Range(aa) /\ c \in Range(pp)
    /\ oo[c].status = "CREATED" /\ ~oo[c].triggered /\ oo[c].filled_quantity = 0

\* C13: a child order with parent_id = P is not in the active set and is not
\* matched while P is not FILLED; in the process_orders call in which P
\* fills, every pending child of P becomes ACCEPTED and is moved to the
\* active set, where it stays when the call returns unless the fill of an OCO
\* peer cancels it later in that call; children of a parent that has not
\* filled are never activated.
C13_BracketStep ==
    \A p \in 1..Len(orders') :
        \A c \in ChildrenOf(orders', p) :
            /\ orders'[p].status # "FILLED" =>
                  /\ Dormant(orders', active_orders', pending_child_orders', c)
                  /\ TradesOf(trades', c) = {}
                  /\ c \in OrderIds => orders'[c] = orders[c]
            /\ p \in OrderIds /\ FillsInStep(p) =>
                  /\ Dormant(orders, active_orders, pending_child_orders, c)
                  /\ c \notin Range(pending_child_orders')
                  /\ status_log'[c] = <<"CREATED", "ACCEPTED">>
                  /\ \/ InActiveAfter(c) /\ orders'[c].status = "ACCEPTED"
                     \/ orders'[c].error_msg = OCO_CANCELED
                  /\ TradesOf(trades', c) = {}
C14_TrailStep ==
    /\ IsSubmitStep =>
          LET o == orders'[Len(orders')]
          IN  o.order_type = "STOP_TRAIL" =>
                  /\ o.highest_price = 0 /\ o.lowest_price = Infinity
                  /\ o.trigger_price = NoPrice
    /\ \A id \in OrderIds :
          InActive(id) /\ orders[id].order_type = "STOP_TRAIL" =>
              LET o == orders[id]
                  n == orders'[id]
                  bar == last_call'.bar
              IN  IF IsProcessStep /\ Covered(o)
                  THEN IF o.side = "SELL"
                       THEN /\ n.highest_price = Max(o.highest_price, bar.high)
                            /\ n.trigger_price = n.highest_price - o.trail_amount
                            /\ o.trigger_price # NoPrice =>
                                  n.trigger_price >= o.trigger_price
                            /\ n.lowest_price = o.lowest_price
                       ELSE /\ n.lowest_price = Min(o.lowest_price, bar.low)
                            /\ n.trigger_price = n.lowest_price + o.trail_amount
                            /\ o.trigger_price # NoPrice =>
                                  n.trigger_price <= o.trigger_price
                            /\ n.highest_price = o.highest_price
                  ELSE /\ n.highest_price = o.highest_price
                       /\ n.lowest_price = o.lowest_price
                       /\ n.trigger_price = o.trigger_price
IsCancelStep == last_cancel'.calls = last_cancel.calls + 1
C18_CancelStep ==
    IsCancelStep =>
        LET id == last_cancel'.order
            active == id \in Range(active_orders)
        IN  /\ last_cancel'.ret = active
            /\ active =>
                  /\ orders'[id].status = "CANCELED"
                  /\ id \notin Range(active_orders')
                  /\ \A other \in OrderIds \ {id} :
                        /\ orders'[other] = orders[other]
                        /\ InActive(other) = InActiveAfter(other)
            /\ (id > Len(orders)
                \/ orders[id].status \in {"FILLED", "CANCELED", "REJECTED"}) =>
                  ~active
            /\ ~active =>
                  /\ orders' = orders
                  /\ active_orders' = active_orders
                  /\ cash' = cash
                  /\ positions' = positions
            /\ trades' = trades
C18_Cancel == [][C18_CancelStep]_vars

\* the latest cancel_order was called on an order canceled before and
\* returned false; the order stays CANCELED
C18_Witness ==
    /\ last_cancel.calls = 2
    /\ last_cancel.status = "CANCELED"
    /\ last_cancel.ret = FALSE
    /\ orders[last_cancel.order].status = "CANCELED"

\* what one symbol adds to the account value under a price map
Contribution(symbol, prices) ==
    IF symbol \notin DOMAIN positions \/ symbol \notin DOMAIN prices
    THEN RatInt(0)
    ELSE LET q == positions[symbol].quantity
             avg == positions[symbol].avg_price
             price == prices[symbol]
         IN  IF q > 0 THEN RatInt(q * price * MoneyScale)
             ELSE IF q < 0
                  THEN Rat((avg.n * RateDen - price * MoneyScale * avg.d) * (-q),
                           avg.d)
                  ELSE RatInt(0)
RECURSIVE SumContributions(_, _)
SumContributions(symbols, prices) ==
    IF symbols = {} THEN RatInt(0)
    ELSE LET symbol == CHOOSE x \in symbols : TRUE
         IN  RatAdd(Contribution(symbol, prices),
                    SumContributions(symbols \ {symbol}, prices))

\* C19: for every price map, get_value(prices) = cash + the sum, over the
\* positions with a non-zero quantity and a price in the map, of quantity *
\* price for a long and (avg_price - price) * |quantity| for a short;
\* positions whose symbol is missing from the map add nothing.
C19_AccountValue ==
    \A prices \in PriceMaps :
        /\ GetValue(prices) = RatAdd(RatInt(cash), SumContributions(Symbols, prices))
        /\ \A missing \in Symbols \ DOMAIN prices :
              \A price \in Prices :
                  GetValue([x \in DOMAIN prices \cup {missing} |->
                               IF x = missing THEN price ELSE prices[x]])
                    = RatAdd(GetValue(prices),
                             Contribution(missing, [x \in {missing} |-> price]))

\* a short and a long are open; valued with a price for the short only, the
\* account is worth cash plus the short's (avg_price - price) * |quantity|,
\* which is not zero, and the long adds nothing
C19_Witness ==
    \E short \in DOMAIN positions, long \in DOMAIN positions :
        /\ positions[short].quantity < 0
        /\ positions[long].quantity > 0
        /\ \E price \in Prices :
              LET prices == [x \in {short} |-> price]
              IN  /\ GetValue(prices) # RatInt(cash)
                  /\ GetValue(prices) =
                        RatAdd(RatInt(cash),
                               Rat((positions[short].avg_price.n * RateDen
                                    - price * MoneyScale * positions[short].avg_price.d)
                                   * (-positions[short].quantity),
                                   positions[short].avg_price.d))

\* the log holds a long round trip: a filled BUY, then a filled SELL of the
\* same quantity, and nothing else
IsRoundTrip ==
    /\ Len(orders) = 2
    /\ orders[1].side = "BUY" /\ orders[1].status = "FILLED"
    /\ orders[2].side = "SELL" /\ orders[2].status = "FILLED"
    /\ orders[2].quantity = orders[1].quantity
\* quantity * (exit price - entry price), in 1/PriceScale
TripPnl ==
    orders[1].quantity * (orders[2].filled_avg_price - orders[1].filled_avg_price)

\* C20: with initial capital 100,000, commission 0 and slippage 0, a market
\* BUY filled at a close followed by a closing market SELL filled at a close
\* yields exactly 2 trades, the first with pnl 0 and the second with pnl
\* quantity * (exit - entry); final cash is the initial cash plus that pnl
\* and the position ends at quantity 0.  For 1 unit bought at 50,000 and sold
\* at 54,000 the second pnl is 4000 and the final cash 104,000.
C20_RoundTrip ==
    IsRoundTrip =>
        /\ Len(trades) = 2
        /\ trades[1].order_id = 1 /\ trades[1].pnl = RatInt(0)
        /\ trades[2].order_id = 2 /\ trades[2].pnl = RatInt(TripPnl)
        /\ orders[1].filled_avg_price \in {p * PriceScale : p \in TripCloses}
        /\ orders[2].filled_avg_price \in {p * PriceScale : p \in TripCloses}
        /\ cash = config.initial_capital * MoneyScale + TripPnl * RateDen
        /\ positions[TripSymbol].quantity = 0
        /\ (/\ orders[1].quantity = 1
            /\ orders[1].filled_avg_price = 50000 * PriceScale
            /\ orders[2].filled_avg_price = 54000 * PriceScale) =>
              /\ trades[2].pnl = RatInt(4000 * PriceScale)
              /\ cash = 104000 * MoneyScale

\* 1 unit bought at 50,000 and closed at 54,000: two trades, pnl 0 and 4000,
\* cash 104,000, flat
C20_Witness ==
    /\ IsRoundTrip
    /\ orders[1].quantity = 1
    /\ orders[1].filled_avg_price = 50000 * PriceScale
    /\ orders[2].filled_avg_price = 54000 * PriceScale
    /\ orders[2].created_at >= trades[1].timestamp
    /\ Len(trades) = 2
    /\ trades[1].pnl = RatInt(0)
    /\ trades[2].pnl = RatInt(4000 * PriceScale)
    /\ cash = 104000 * MoneyScale
    /\ positions[TripSymbol].quantity = 0

\* ------------------------------------------------------- engine properties
RunOver == run_pc \in {"returned", "raised"}
HookCalls(hook) == {i \in 1..Len(hook_log) : hook_log[i].hook = hook}

\* C21: run(strategy, empty bar sequence) returns, without raising, a result
\* with all metrics 0, no trades and an empty equity curve, and calls neither
\* init nor on_bar nor a notify hook of the strategy (which is not even
\* loaded).
C21_EmptyData ==
    run_pc # "idle" /\ run_data = <<>> =>
        /\ run_pc = "returned"
        /\ run_result.kind = "result"
        /\ run_result.total_return = [n |-> 0, d |-> 1]
        /\ run_result.annualized_return = 0
        /\ run_result.max_drawdown = 0
        /\ run_result.sharpe_ratio = 0
        /\ run_result.win_rate = 0
        /\ run_result.profit_factor = 0
        /\ run_result.total_trades = 0
        /\ run_result.trades = <<>>
        /\ run_result.equity_curve = <<>>
        /\ hook_log = <<>>
        /\ strategy = NoStrategy
        /\ orders = <<>> /\ trades = <<>>

\* run returned the zero result on empty data for a strategy whose source
\* does not load
C21_Witness ==
    /\ run_pc = "returned"
    /\ run_data = <<>>
    /\ Len(run_log) = 1
    /\ ~run_log[1].code.loads
    /\ run_result.total_trades = 0
    /\ hook_log = <<>>

\* the hook calls a step adds to the log
NewHooks == SubSeq(hook_log', Len(hook_log) + 1, Len(hook_log'))
SomeHookRaised == \E i \in 1..Len(NewHooks) : NewHooks[i].raised
\* the order the n-th on_bar call asks for, if it asks for one
AsksOrder(act) ==
    \/ act.api = "order"
    \/ /\ act.api = "close"
       /\ StrategySymbol \in DOMAIN positions
       /\ positions[StrategySymbol].quantity # 0
AskedSide(act) ==
    IF act.api = "order" THEN act.side
    ELSE IF positions[StrategySymbol].quantity > 0 THEN "SELL" ELSE "BUY"
AskedQuantity(act) ==
    IF act.api = "order" THEN act.quantity
    ELSE Abs(positions[StrategySymbol].quantity)

\* C22: whatever on_bar, notify_order and notify_trade raise, run never
\* raises because of them, processes every snapshot, calls on_bar exactly
\* once per snapshot and returns a result whose equity curve has one point
\* per snapshot; a step in which a hook raises leaves the broker's cash,
\* positions and orders as the same step does when the hook returns: the
\* matching pass is complete, the API call made before the raise is kept.
C22_Step ==
    /\ run_pc' = "raised" => run_result'.error \in {"load", "init"}
    /\ run_pc' = "returned" /\ run_data' # <<>> =>
          /\ bar_index' = Len(run_data')
          /\ Len(equity_curve') = Len(run_data')
          /\ run_result'.equity_curve = equity_curve'
          /\ \A n \in 1..Len(run_data') :
                Cardinality({i \in 1..Len(hook_log') :
                                /\ hook_log'[i].hook = "on_bar"
                                /\ hook_log'[i].arg = n}) = 1
    /\ SomeHookRaised /\ run_pc = "strategy" =>
          LET act == strategy.code.script[bar_index + 1].act
          IN  /\ run_pc' = "match" /\ bar_index' = bar_index + 1
              /\ cash' = cash /\ positions' = positions
              /\ IF AsksOrder(act)
                 THEN /\ Len(orders') = Len(orders) + 1
                      /\ SubSeq(orders', 1, Len(orders)) = orders
                      /\ orders'[Len(orders')].side = AskedSide(act)
                      /\ orders'[Len(orders')].quantity = AskedQuantity(act)
                      /\ orders'[Len(orders')].status \in {"ACCEPTED", "REJECTED"}
                      /\ (orders'[Len(orders')].status = "ACCEPTED")
                            = (Len(orders') \in Range(active_orders'))
                 ELSE orders' = orders /\ active_orders' = active_orders
    /\ SomeHookRaised /\ run_pc = "match" =>
          LET st0 == [cash |-> cash, positions |-> positions, orders |-> orders,
                      trades |-> trades, trade_counter |-> trade_counter,
                      status_log |-> status_log, remove |-> {}]
              st == ProcessLoop(st0, active_orders, 1, run_data[bar_index + 1],
                                NoSymbol)
          IN  /\ run_pc' = "strategy"
              /\ cash' = st.cash /\ positions' = st.positions
              /\ orders' = st.orders /\ trades' = st.trades
              /\ Len(equity_curve') = Len(equity_curve) + 1
C22_CallbackExceptions == [][C22_Step]_vars

\* a run over three bars returned although on_bar raised at the first bar
\* after buying, and notify_order and notify_trade raised: the buy was
\* filled, the position closed with a pnl, three equity points
C22_Witness ==
    /\ run_pc = "returned"
    /\ Len(run_data) = 3
    /\ strategy.code.script[1].raises
    /\ strategy.code.script[1].act.api = "order"
    /\ \E i \in HookCalls("notify_order") : hook_log[i].raised
    /\ \E i \in HookCalls("notify_trade") : hook_log[i].raised
    /\ Len(trades) = 2
    /\ Len(run_result.equity_curve) = 3

\* C23: when the strategy's init() raises, run raises (the RuntimeError that
\* wraps the failure) and returns no result; no snapshot is processed, on_bar
\* and the notify hooks are never called, no order is submitted or matched
C23_InitFatal ==
    strategy.loaded /\ strategy.code.init_raises =>
        /\ run_pc = "raised"
        /\ run_result = Raised("init")
        /\ bar_index = 0
        /\ hook_log = <<[hook |-> "init", arg |-> 0, raised |-> TRUE]>>
        /\ orders = <<>> /\ trades = <<>> /\ active_orders = <<>>
        /\ equity_curve = <<>>
        /\ clock = 0

\* init raised in a run over three bars with a script that buys at bar 1
C23_Witness ==
    /\ run_pc = "raised"
    /\ run_result = Raised("init")
    /\ Len(run_data) = 3
    /\ strategy.code.script[1].act.api = "order"

\* C24: every order of the strategy that is REJECTED, at submit time or at
\* fill time, carries a non-empty reason and has been reported to the
\* strategy by a notify_order call for that order; no run raised for it
C24_RejectionReported ==
    \A i \in 1..Len(orders) :
        run_pc # "idle" /\ orders[i].status = "REJECTED" =>
            /\ orders[i].error_msg # ""
            /\ \E k \in HookCalls("notify_order") : hook_log[k].arg = i
            /\ run_pc # "raised"

\* C25: on a multi-timeframe feed run completes without error, has one
\* equity point per base tick processed, stamped with the tick's timestamp,
\* and at every base tick matches each active order against the base bar of
\* its symbol: once a tick is matched, no market order submitted before it
\* for a symbol of the tick's base entry is still waiting
C25_TimeframeSnapshots ==
    run_pc # "idle" /\ run_data # <<>> =>
        LET done == IF run_pc = "strategy" THEN bar_index + 1 ELSE bar_index
        IN  /\ run_pc # "raised"
            /\ Len(equity_curve) = done
            /\ \A t \in 1..done : equity_curve[t].timestamp = run_data[t].ts
            /\ run_pc = "returned" => done = Len(run_data)
            /\ run_pc = "strategy" =>
                  \A i \in 1..Len(orders) :
                      /\ orders[i].order_type = "MARKET"
                      /\ orders[i].symbol \in DOMAIN run_data[done].base.bars
                      => orders[i].status # "ACCEPTED"

\* C30: any two runs of one engine instance on the same strategy source and
\* the same data end the same way with identical trades and an identical
\* equity curve, whatever the engine ran in between
C30_Reproducible ==
    \A i, j \in 1..Len(run_log) :
        run_log[i].code = run_log[j].code /\ run_log[i].data = run_log[j].data
            => run_log[i].result = run_log[j].result

\* the snapshots the run has handed to the strategy when on_bar runs for
\* the k-th one
Seen(k) == SubSeq(run_data, 1, k)

\* C31: inside on_bar for the k-th snapshot get_bars with lookback n returns
\* exactly the last min(n, k) snapshots seen, in time order and ending with
\* the current one; get_bar with offset o returns the snapshot at that
\* offset from the end (-1 the current one) and None when there is none
C31_Lookback ==
    /\ last_query.api = "get_bars" =>
          LET k == last_query.k
              n == last_query.n
          IN  /\ Len(last_query.ret) = Min(n, k)
              /\ last_query.ret = SubSeq(Seen(k), k - Min(n, k) + 1, k)
    /\ last_query.api = "get_bar" =>
          LET k == last_query.k
              o == last_query.n
          IN  last_query.ret = IF k + o + 1 >= 1 THEN Seen(k)[k + o + 1] ELSE PyNone

\* the on_bar calls made so far in this run
OnBarCalls == Len(SelectSeq(hook_log, LAMBDA h : h.hook = "on_bar"))

\* the order of the steps within an iteration, and what it means for trades:
\* snapshot k is matched and its equity point recorded before on_bar(k), so
\* a trade is later than the snapshot at which its order was created, and a
\* MARKET order's trade is of the very next snapshot, at the MARKET price of
\* that snapshot's close; an order of the last snapshot has no trade
IterationOrder ==
    /\ run_pc \in {"match", "strategy"} =>
          /\ OnBarCalls = bar_index
          /\ Len(equity_curve) = IF run_pc = "strategy" THEN bar_index + 1
                                 ELSE bar_index
    /\ run_pc = "strategy" =>
          LET bar == run_data[bar_index + 1]
              st == [cash |-> cash, positions |-> positions, orders |-> orders]
          IN  /\ current_timestamp = bar.timestamp
              /\ equity_curve[bar_index + 1]
                    = [timestamp |-> bar.timestamp,
                       equity |-> CalculateEquity(st, bar)]
    /\ \A j \in 1..Len(trades) :
          LET trade == trades[j]
              order == orders[trade.order_id]
          IN  /\ trade.timestamp > order.created_at
              /\ order.order_type = "MARKET" =>
                    /\ trade.timestamp = order.created_at + 1
                    /\ trade.price = MarketFill(order, run_data[trade.timestamp])
    /\ \A i \in 1..Len(orders) :
          (run_data # <<>> /\ orders[i].created_at = Len(run_data)) =>
              /\ orders[i].status \in {"ACCEPTED", "REJECTED"}
              /\ \A j \in 1..Len(trades) : trades[j].order_id # i

\* C33 as stated: the steps of an iteration run in the order match, equity
\* point, progress, on_bar; an order is never matched against the snapshot
\* of its own on_bar; a MARKET order submitted at snapshot k is filled at the
\* close of snapshot k+1; an order of the last snapshot never fills
C33_PerSnapshotOrder ==
    /\ IterationOrder
    /\ \A i \in 1..Len(orders) :
          (orders[i].order_type = "MARKET"
              /\ orders[i].created_at < current_timestamp) =>
              orders[i].status = "FILLED"

\* C33, amended: as above, except that the MARKET order submitted at snapshot
\* k is matched at snapshot k+1, where it is filled unless the broker finds
\* the funds insufficient and rejects it
C33_PerSnapshotMatch ==
    /\ IterationOrder
    /\ \A i \in 1..Len(orders) :
          (orders[i].order_type = "MARKET"
              /\ orders[i].created_at < current_timestamp) =>
              /\ orders[i].status \in {"FILLED", "REJECTED"}
              /\ orders[i].status = "FILLED" =>
                    \E j \in 1..Len(trades) : trades[j].order_id = i

\* a MARKET order of the first on_bar was filled at the second snapshot, one
\* of the last on_bar is still waiting when run() has returned
C33_Witness ==
    /\ run_pc = "returned"
    /\ Len(run_data) = MaxBars
    /\ \E j \in 1..Len(trades) :
          /\ orders[trades[j].order_id].order_type = "MARKET"
          /\ orders[trades[j].order_id].created_at = 1
          /\ trades[j].timestamp = 2
    /\ \E i \in 1..Len(orders) :
          /\ orders[i].created_at = Len(run_data)
          /\ orders[i].status = "ACCEPTED"

\* the signed quantity the first n of a sequence of trades moved
RECURSIVE SignedSum(_, _)
SignedSum(seq, n) ==
    IF n = 0 THEN 0
    ELSE SignedSum(seq, n - 1)
            + (IF seq[n].side = "BUY" THEN seq[n].quantity ELSE -seq[n].quantity)

\* the places of hook_log where a hook was called for an order
HookCallsFor(hook, id) ==
    {i \in 1..Len(hook_log) : hook_log[i].hook = hook /\ hook_log[i].arg = id}

\* C35: for every trade of a run notify_order was called exactly once, the
\* order being FILLED, and notify_trade exactly once, right after that
\* notify_order, if the trade's pnl is not 0 and not at all if it is 0; a
\* fill that opens or adds to a position never triggers notify_trade; no
\* order without a trade is notified
C35_FillNotifications ==
    /\ \A j \in 1..Len(trades) :
          LET trade == trades[j]
              id == trade.order_id
              held == SignedSum(trades, j - 1)
              opens == \/ held = 0
                       \/ held > 0 /\ trade.side = "BUY"
                       \/ held < 0 /\ trade.side = "SELL"
          IN  /\ Cardinality(HookCallsFor("notify_order", id)) = 1
              /\ orders[id].status = "FILLED"
              /\ Cardinality(HookCallsFor("notify_trade", id))
                    = IF trade.pnl # RatInt(0) THEN 1 ELSE 0
              /\ \A i \in HookCallsFor("notify_trade", id) :
                    i - 1 \in HookCallsFor("notify_order", id)
              /\ opens => HookCallsFor("notify_trade", id) = {}
    /\ \A i \in 1..Len(hook_log) :
          hook_log[i].hook \in {"notify_order", "notify_trade"} =>
              \E j \in 1..Len(trades) : trades[j].order_id = hook_log[i].arg

\* a BUY opened a position (notify_order alone) and a close() ended it with
\* a pnl (notify_order, then notify_trade), the first notify_order raising
C35_Witness ==
    /\ Len(trades) = 2
    /\ trades[1].pnl = RatInt(0)
    /\ trades[2].pnl # RatInt(0)
    /\ HookCallsFor("notify_trade", trades[2].order_id) # {}
    /\ strategy.code.notify_order_raises

\* the trades a process_orders step appended
NewTrades == SubSeq(trades', Len(trades) + 1, Len(trades'))

\* the step in which the order of the last close() goes from ACCEPTED to FILLED
CloseFillsNow ==
    /\ last_query.api = "close"
    /\ last_query.ret # NoId
    /\ orders[last_query.ret].status = "ACCEPTED"
    /\ orders'[last_query.ret].status = "FILLED"

\* where that order's trade stands among the trades of the step
CloseTradeIndex ==
    CHOOSE j \in 1..Len(NewTrades) : NewTrades[j].order_id = last_query.ret

\* the position's quantity right after the fill of the close order
QuantityAtCloseFill ==
    HeldQuantity(last_query.symbol) + SignedSum(NewTrades, CloseTradeIndex)

\* what a call of close(symbol) returns and submits
CloseSubmits ==
    (last_query' # last_query /\ last_query'.api = "close") =>
        LET q == HeldQuantity(last_query'.symbol)
        IN  /\ q = 0 => /\ last_query'.ret = NoId
                        /\ orders' = orders
                        /\ active_orders' = active_orders
            /\ q # 0 => /\ Len(orders') = Len(orders) + 1
                        /\ last_query'.ret = Len(orders')
                        /\ orders'[Len(orders')].symbol = last_query'.symbol
                        /\ orders'[Len(orders')].order_type = "MARKET"
                        /\ orders'[Len(orders')].side
                              = (IF q > 0 THEN "SELL" ELSE "BUY")
                        /\ orders'[Len(orders')].quantity = Abs(q)

\* C32 as stated: close(symbol) returns None and submits nothing when the
\* position is flat, else submits one MARKET order of the opposite side for
\* |position.quantity|, and when that order fills the position's quantity is 0
C32_Step ==
    /\ CloseSubmits
    /\ CloseFillsNow => QuantityAtCloseFill = 0

C32_CloseFlattens == [][C32_Step]_vars

\* C32, amended: as above, except that the fill of the close order leaves the
\* position at 0 when no other order filled before it in the same matching
\* pass (the order is sized when close() is called)
C32_AmendedStep ==
    /\ CloseSubmits
    /\ (CloseFillsNow /\ CloseTradeIndex = 1) => QuantityAtCloseFill = 0

C32_CloseFlattensAlone == [][C32_AmendedStep]_vars

\* a close() of a position that was not flat has filled and left it flat
C32_Witness ==
    /\ last_query.api = "close"
    /\ last_query.quantity # 0
    /\ orders[last_query.ret].status = "FILLED"
    /\ HeldQuantity(last_query.symbol) = 0
    /\ Len(trades) >= 2

\* C38: no order is filled against data older than itself: every trade of a
\* run carries a timestamp that is not before the created_at of its order,
\* and the trades are listed in non-decreasing timestamp order, with a single
\* feed and with several symbols, where a symbol without a new bar is there
\* with its forward-filled earlier bar
C38_NoStaleFill ==
    \A j \in 1..Len(trades) :
        /\ trades[j].timestamp >= orders[trades[j].order_id].created_at
        /\ j > 1 => trades[j - 1].timestamp <= trades[j].timestamp

\* the broker as a matching pass finds it
BrokerNow ==
    [cash |-> cash, positions |-> positions, orders |-> orders,
     trades |-> trades, trade_counter |-> trade_counter,
     status_log |-> status_log, remove |-> {}]

\* the matching of one snapshot with several symbols: a call for one symbol
\* changes no order of another symbol and removes none; every matching order
\* of a symbol of the snapshot is matched, against that symbol's bar; orders
\* of symbols that are not in the snapshot stay as they are
RoutedBySymbol(slice) ==
    /\ \A k \in DOMAIN slice.bars :
          LET pass == ProcessLoop(BrokerNow, active_orders, 1, slice.bars[k],
                                  MatchSymbol(k))
          IN  \A i \in 1..Len(orders) :
                  orders[i].symbol # k =>
                      pass.orders[i] = orders[i] /\ i \notin pass.remove
    /\ \A i \in Range(active_orders) :
          IF orders[i].symbol \in DOMAIN slice.bars
          THEN TryMatch(orders[i], slice.bars[orders[i].symbol]).fill # NoFill
                  => /\ orders'[i].status \in {"FILLED", "REJECTED"}
                     /\ i \notin Range(active_orders')
          ELSE orders'[i] = orders[i] /\ i \in Range(active_orders')
    /\ \A j \in (Len(trades) + 1)..Len(trades') :
          /\ trades'[j].symbol \in DOMAIN slice.bars
          /\ trades'[j].timestamp = slice.bars[trades'[j].symbol].timestamp
          /\ trades'[j].price
                = TryMatch(orders[trades'[j].order_id],
                           slice.bars[trades'[j].symbol]).fill

\* the matching of a bar of a feed without symbol: every active order the
\* bar matches is matched, whatever its symbol
RoutedToAll(slice) ==
    /\ \A i \in Range(active_orders) :
          TryMatch(orders[i], slice.bars[DEFAULT]).fill # NoFill
              => /\ orders'[i].status \in {"FILLED", "REJECTED"}
                 /\ i \notin Range(active_orders')
    /\ \A j \in (Len(trades) + 1)..Len(trades') :
          trades'[j].timestamp = slice.bars[DEFAULT].timestamp

\* C40: with several symbols process_orders is called once per symbol of the
\* snapshot and matches only the orders of that symbol, leaving those of
\* every other symbol (status, triggered flag, place in the active set)
\* unchanged; with one feed and no feed symbol (placeholder DEFAULT) every
\* active order is matched against each bar whatever the order's symbol
C40_Step ==
    (run_pc = "match" /\ run_pc' = "strategy") =>
        LET slice == run_data[bar_index + 1]
        IN  IF slice.mode = "multi" THEN RoutedBySymbol(slice)
            ELSE RoutedToAll(slice)

C40_SymbolRouting == [][C40_Step]_vars

\* with two symbols a BTCUSDT order was filled by a snapshot that left an
\* older ETHUSDT order in the active set
C40_Witness ==
    /\ run_pc = "strategy"
    /\ run_data[bar_index + 1].mode = "multi"
    /\ \E j \in 1..Len(trades) :
          /\ trades[j].symbol = "BTCUSDT"
          /\ trades[j].timestamp = current_timestamp
    /\ \E i \in Range(active_orders) :
          /\ orders[i].symbol = "ETHUSDT"
          /\ orders[i].created_at < current_timestamp

\* ---------------------------------------------------- manager properties
Started == 1..Len(task_pc)
Terminals(t) == {i \in 1..Len(emitted[t]) : IsTerminal(emitted[t][i])}
Scheduled(call, t) ==
    \E k \in 1..Len(loop_ready) : loop_ready[k].call = call /\ loop_ready[k].task = t

\* C26: every started task emits exactly one terminal event, result or
\* error: never two, the terminal event is the last event ever put on the
\* task's queue and no put is pending after it; _run_task never dies
\* without one, and until it has emitted it the task always has a next
\* step (its start or resumption is scheduled, or its worker is running)
C26_OneTerminal ==
    \A t \in Started :
        /\ Cardinality(Terminals(t)) <= 1
        /\ Terminals(t) # {} => /\ Terminals(t) = {Len(emitted[t])}
                                /\ ~Scheduled("put_nowait", t)
        /\ (task_pc[t].pc = "done") = (Terminals(t) # {})
        /\ task_pc[t].pc # "failed"
        /\ task_pc[t].pc = "created" => Scheduled("_run_task", t)
        /\ task_pc[t].pc = "running" => on_progress = t /\ run_pc # "idle"
        /\ task_pc[t].pc = "awaited" => Scheduled("wakeup", t)

\* one task ended with two progress events and then its result, the other
\* with an error as its only event
C26_Witness ==
    /\ Len(task_pc) = 2
    /\ \E t \in Started :
          /\ Len(emitted[t]) = 3
          /\ emitted[t][1].type = "progress" /\ emitted[t][2].type = "progress"
          /\ emitted[t][3].type = "result"
    /\ \E t \in Started : Len(emitted[t]) = 1 /\ emitted[t][1].type = "error"

StreamsOf(t) == {s \in 1..Len(stream_pc) : stream_pc[s].task = t}
\* a stream_events call for an id that is not registered
IsUnknownStream ==
    /\ Len(stream_pc') = Len(stream_pc) + 1
    /\ stream_pc'[Len(stream_pc')].task \notin tasks

\* C27: once a started task has emitted its terminal event, its streams get
\* closed and its entry is eventually removed from the registry; and
\* stream_events for an unregistered id yields a single error event and
\* ends without changing the registry
C27_Released ==
    /\ \A t \in TaskIds :
          (t \in Started /\ Terminals(t) # {})
              ~> (/\ t \notin tasks
                  /\ \A s \in StreamsOf(t) : stream_pc[s].pc # "get")
    /\ [][IsUnknownStream =>
             /\ yielded'[Len(stream_pc')] = <<ErrorEvent(TASK_NOT_FOUND)>>
             /\ stream_pc'[Len(stream_pc')].pc = "returned"
             /\ tasks' = tasks]_vars

\* a configuration the taxonomy calls invalid: an unknown field, or a
\* capital that is not positive
ConfigIsInvalid(cfg) ==
    \/ ~(DOMAIN cfg \subseteq ConfigFields)
    \/ cfg.initial_capital <= 0
TerminalType(t) == emitted[t][Len(emitted[t])].type

\* C28: a finished task whose configuration is invalid, or whose strategy
\* fails to load or fails in init (on data that is not empty), ended with
\* an error event; a finished task with a valid configuration whose data is
\* empty, or whose strategy raises at most in per-bar callbacks, ended with
\* a result event
C28_Taxonomy ==
    \A t \in Started :
        task_pc[t].pc = "done" =>
            LET code == task_pc[t].code
                fatal == \/ ConfigIsInvalid(task_pc[t].config)
                         \/ /\ task_pc[t].data # <<>>
                            /\ ~code.loads \/ code.init_raises
            IN  TerminalType(t) = IF fatal THEN "error" ELSE "result"

\* the task's client has abandoned its stream: the one way a client has of
\* asking for a running task to stop
CancelRequested(t) == \E s \in StreamsOf(t) : stream_pc[s].pc = "closed"

\* C29: after cancellation of a running task was requested the worker
\* starts no further bar once it is at a bar boundary (the bar in progress
\* is completed: its on_bar step still runs)
C29_Cooperative ==
    [][/\ on_progress \in Started
       /\ task_pc[on_progress].pc = "running"
       /\ CancelRequested(on_progress)
       /\ run_pc = "match"
       => run_pc' # "strategy"]_vars

\* the streams that read the queue of task t
ConsumersOf(t) == {s \in StreamsOf(t) : stream_pc[s].pc # "returned"}

\* where an event yielded to a consumer stands among the events of its task
EmittedIndex(t, event) == CHOOSE i \in 1..Len(emitted[t]) : emitted[t][i] = event

RECURSIVE TotalYielded(_)
TotalYielded(ss) ==
    IF ss = {} THEN 0
    ELSE LET s == CHOOSE x \in ss : TRUE
         IN  Len(yielded[s]) + TotalYielded(ss \ {s})

\* the events reach the queue in the order engine.run produced them, the
\* terminal event after them, and leave it in that order
DeliveredInOrder ==
    \A t \in Started :
        /\ \A i \in 1..Len(emitted[t]) :
              IF emitted[t][i].type = "progress"
              THEN emitted[t][i].current = i
              ELSE i = Len(emitted[t])
        /\ Len(queue[t]) <= Len(emitted[t])
        /\ queue[t] = SubSeq(emitted[t], Len(emitted[t]) - Len(queue[t]) + 1,
                             Len(emitted[t]))
        /\ TotalYielded(ConsumersOf(t)) + Len(queue[t]) = Len(emitted[t])
        /\ \A s \in ConsumersOf(t) :
              /\ \A i \in 1..Len(yielded[s]) :
                    \E j \in 1..Len(emitted[t]) : emitted[t][j] = yielded[s][i]
              /\ \A i \in 1..(Len(yielded[s]) - 1) :
                    /\ EmittedIndex(t, yielded[s][i])
                          < EmittedIndex(t, yielded[s][i + 1])
                    /\ ~IsTerminal(yielded[s][i])

\* C34: a step of engine.run on the worker thread never changes a queue (only
\* steps of the event loop do), and every consumer receives the progress
\* events of its task in the order they were produced and before the task's
\* terminal event
C34_Step ==
    /\ queue' # queue => UNCHANGED engineVars
    /\ DeliveredInOrder'

C34_CrossThreadOrder == [][C34_Step]_vars

\* one consumer received two progress events and then the result while the
\* loop and the worker were interleaved with it
C34_Witness ==
    \E s \in 1..Len(stream_pc) :
        /\ Len(yielded[s]) = 3
        /\ yielded[s][1].type = "progress" /\ yielded[s][1].current = 1
        /\ yielded[s][2].type = "progress" /\ yielded[s][2].current = 2
        /\ yielded[s][3].type = "result"

\* a stream that waits on the queue of a task whose terminal event is out
WaitsAfterEnd(s) ==
    /\ s <= Len(stream_pc)
    /\ stream_pc[s].pc = "get"
    /\ Terminals(stream_pc[s].task) # {}

\* the stream has ended: it got the terminal event, or its client left
StreamOver(s) == s > Len(stream_pc) \/ stream_pc[s].pc # "get"

\* the terminal event of the stream's task has reached one of the consumers,
\* unless every one of them was closed by its client
TerminalDelivered(s) ==
    \/ s > Len(stream_pc)
    \/ \E c \in ConsumersOf(stream_pc[s].task) :
          yielded[c] # <<>> /\ IsTerminal(yielded[c][Len(yielded[c])])
    \/ \A c \in ConsumersOf(stream_pc[s].task) : stream_pc[c].pc = "closed"

\* C39: whatever the number of consumers that called stream_events on a
\* registered task, once the task's run has finished every such stream
\* eventually ends (no consumer waits on the queue for ever) and the terminal
\* event is delivered to one of them
C39_StreamsEnd ==
    \A s \in 1..MaxStreams :
        /\ WaitsAfterEnd(s) ~> StreamOver(s)
        /\ WaitsAfterEnd(s) ~> TerminalDelivered(s)

\* ---------------------------------------------------- position properties
\* the latest update: position before, arguments, pnl returned
Updated == last_update.calls > 0
OldQty == last_update.before.quantity
OldAvg == last_update.before.avg_price
Delta == last_update.delta_quantity
SameDirection == (OldQty > 0 /\ Delta > 0) \/ (OldQty < 0 /\ Delta < 0)
Opposite == (OldQty > 0 /\ Delta < 0) \/ (OldQty < 0 /\ Delta > 0)
\* units * (price - avg) for a long, units * (avg - price) for a short
RealizedOn(units) ==
    IF OldQty > 0
    THEN Rat(units * (last_update.price * OldAvg.d - OldAvg.n), OldAvg.d)
    ELSE Rat(units * (OldAvg.n - last_update.price * OldAvg.d), OldAvg.d)
\* |q| < 1e-10 for the remainder of the latest update
RemainderIsDust == 2 * Abs(OldQty + Delta) < DustSnap
LeastPrice == CHOOSE p \in Prices : \A r \in Prices : p <= r
GreatestPrice == CHOOSE p \in Prices : \A r \in Prices : p >= r

\* C15: after any sequence of Position.update calls, whenever the quantity is
\* zero (a remainder with |quantity| < 1e-10 is set to zero) avg_price is
\* exactly 0; whenever the quantity is not zero it is at least 1e-10 in
\* magnitude and avg_price is a price basis, between the lowest and the
\* highest fill price; an update that exactly closes the position returns
\* pnl = closed_qty * (price - avg_price) for a long and closed_qty *
\* (avg_price - price) for a short.
C15_PositionInvariant ==
    /\ position.quantity = 0 => position.avg_price = [n |-> 0, d |-> 1]
    /\ position.quantity # 0 =>
          /\ 2 * Abs(position.quantity) >= DustSnap
          /\ position.avg_price.n >= LeastPrice * position.avg_price.d
          /\ position.avg_price.n <= GreatestPrice * position.avg_price.d
    /\ Updated /\ RemainderIsDust => position.quantity = 0
    /\ Updated /\ OldQty # 0 /\ Delta = -OldQty =>
          /\ last_update.pnl = RealizedOn(Abs(OldQty))
          /\ position = NewPosition

\* a long with a fractional average price was closed exactly, at a profit or
\* a loss
C15_Witness ==
    /\ Updated /\ OldQty > 0 /\ Delta = -OldQty
    /\ OldAvg.d > 1 /\ last_update.pnl.n # 0
    /\ position = NewPosition

\* C16 as stated: an update whose delta has the opposite sign and larger
\* magnitude than the quantity q realizes pnl on |q| units only, leaves
\* quantity = q + delta, of the opposite sign, and sets avg_price to the fill
\* price.
C16_Original ==
    Updated /\ Opposite /\ Abs(Delta) > Abs(OldQty) =>
        /\ last_update.pnl = RealizedOn(Abs(OldQty))
        /\ position.quantity = OldQty + Delta
        /\ position.avg_price = [n |-> last_update.price, d |-> 1]

\* C16 amended: as C16 when |q + delta| >= 1e-10; when the remainder is
\* smaller the pnl is the same and the position is reset to quantity 0 and
\* avg_price 0.
C16_Reversal ==
    Updated /\ Opposite /\ Abs(Delta) > Abs(OldQty) =>
        /\ last_update.pnl = RealizedOn(Abs(OldQty))
        /\ IF RemainderIsDust THEN position = NewPosition
           ELSE /\ position.quantity = OldQty + Delta
                /\ (position.quantity > 0) = (OldQty < 0)
                /\ position.avg_price = [n |-> last_update.price, d |-> 1]

\* a long was reversed into a short at a price above its average: a loss on
\* the closed units, the new basis is the fill price
C16_Witness ==
    /\ Updated /\ OldQty > 0 /\ position.quantity < 0
    /\ position.quantity = OldQty + Delta
    /\ position.avg_price = [n |-> last_update.price, d |-> 1]
    /\ position.avg_price # OldAvg
    /\ last_update.pnl = RealizedOn(OldQty) /\ last_update.pnl.n # 0

\* the quantity-weighted average of the old basis and the new fill
WeightedAverage ==
    Rat(Abs(OldQty) * OldAvg.n + Abs(Delta) * last_update.price * OldAvg.d,
        OldAvg.d * Abs(OldQty + Delta))

\* C17 as stated: a same-direction update returns pnl 0 and sets avg_price to
\* the quantity-weighted average of the old basis and the new fill; a partial
\* reduce (opposite sign, smaller magnitude) returns pnl on the reduced
\* quantity only and leaves avg_price unchanged.
C17_Original ==
    /\ Updated /\ SameDirection =>
          /\ last_update.pnl = [n |-> 0, d |-> 1]
          /\ position.quantity = OldQty + Delta
          /\ position.avg_price = WeightedAverage
    /\ Updated /\ Opposite /\ Abs(Delta) < Abs(OldQty) =>
          /\ last_update.pnl = RealizedOn(Abs(Delta))
          /\ position.quantity = OldQty + Delta
          /\ position.avg_price = OldAvg

\* C17 amended: as C17, except that a partial reduce which leaves less than
\* 1e-10 in magnitude returns the same pnl and resets the position to
\* quantity 0 and avg_price 0.
C17_AddReduce ==
    /\ Updated /\ SameDirection =>
          /\ last_update.pnl = [n |-> 0, d |-> 1]
          /\ position.quantity = OldQty + Delta
          /\ position.avg_price = WeightedAverage
    /\ Updated /\ Opposite /\ Abs(Delta) < Abs(OldQty) =>
          /\ last_update.pnl = RealizedOn(Abs(Delta))
          /\ IF RemainderIsDust THEN position = NewPosition
             ELSE /\ position.quantity = OldQty + Delta
                  /\ position.avg_price = OldAvg

\* a long built by two buys at different prices was reduced in part: pnl on
\* the reduced units, the fractional average is kept
C17_Witness ==
    /\ Updated /\ OldQty > 0 /\ Delta < 0 /\ position.quantity > 0
    /\ OldAvg.d > 1 /\ position.avg_price = OldAvg
    /\ last_update.pnl = RealizedOn(-Delta) /\ last_update.pnl.n # 0

\* ------------------------------------------------------- feed properties
\* The bar of a list with the greatest timestamp among those satisfying P
ClosedBars(i, s, T) ==
    {b \in Range(other_data[i][s]) : b.timestamp + INTERVAL_MS[i] <= T}
LatestOf(B) == CHOOSE b \in B : \A c \in B : c.timestamp <= b.timestamp

\* C1: no look-ahead. In every emitted step with base timestamp T, every
\* higher-timeframe bar b exposed under interval I, for any symbol, satisfies
\* b.timestamp + INTERVAL_MS[I] <= T: a bar still forming at T is not exposed.
C1_NoLookahead ==
    \A k \in 1..Len(tf_aligned) :
        \A i \in DOMAIN tf_aligned[k].other :
            \A s \in DOMAIN tf_aligned[k].other[i] :
                tf_aligned[k].other[i][s].timestamp + INTERVAL_MS[i] <= tf_aligned[k].ts

\* a step exposes a closed bar while a later bar of the same list has opened
\* at or before T and is still forming
C1_Witness ==
    \E k \in 1..Len(tf_aligned) :
        \E i \in DOMAIN tf_aligned[k].other :
            \E s \in DOMAIN tf_aligned[k].other[i] :
                \E b \in Range(other_data[i][s]) :
                    /\ b.timestamp <= tf_aligned[k].ts
                    /\ b.timestamp + INTERVAL_MS[i] > tf_aligned[k].ts
                    /\ b.timestamp > tf_aligned[k].other[i][s].timestamp

\* C2: freshness. At every base tick T, for every interval I and symbol S,
\* the exposed bar is exactly the bar of S with the greatest timestamp among
\* those with timestamp + INTERVAL_MS[I] <= T, and S is absent if there is none.
C2_Freshness ==
    \A k \in 1..Len(tf_aligned) :
        \A i \in DOMAIN other_data :
            \A s \in DOMAIN other_data[i] :
                LET step == tf_aligned[k]
                    closed == ClosedBars(i, s, step.ts)
                    shown == i \in DOMAIN step.other /\ s \in DOMAIN step.other[i]
                IN  IF closed = {} THEN ~shown
                    ELSE shown /\ step.other[i][s] = LatestOf(closed)

\* the bar exposed for (I, S) is replaced by a later one between two ticks
C2_Witness ==
    \E k \in 2..Len(tf_aligned) :
        \E i \in DOMAIN tf_aligned[k - 1].other :
            \E s \in DOMAIN tf_aligned[k - 1].other[i] :
                /\ i \in DOMAIN tf_aligned[k].other
                /\ s \in DOMAIN tf_aligned[k].other[i]
                /\ tf_aligned[k].other[i][s].timestamp
                       > tf_aligned[k - 1].other[i][s].timestamp

UnionTimestamps ==
    UNION {{b.timestamp : b \in Range(feeds[s])} : s \in DOMAIN feeds}

\* C3: forward fill. Snapshots are emitted once per distinct timestamp of the
\* union, in increasing order; in the snapshot for T each symbol S maps to its
\* own bar with the greatest timestamp <= T (the same bar when S has none at
\* T), S is absent only if it has no bar at or before T, and no snapshot holds
\* a bar with timestamp > T.
C3_ForwardFill ==
    /\ Len(mf_aligned) = mf_k
    /\ \A k \in 1..Len(mf_aligned) :
           /\ mf_aligned[k].ts \in UnionTimestamps
           /\ \A j \in 1..(k - 1) : mf_aligned[j].ts < mf_aligned[k].ts
           /\ {t \in UnionTimestamps : t <= mf_aligned[k].ts}
                 = {mf_aligned[j].ts : j \in 1..k}
           /\ \A s \in DOMAIN feeds :
                 LET T == mf_aligned[k].ts
                     prior == {b \in Range(feeds[s]) : b.timestamp <= T}
                 IN  IF prior = {} THEN s \notin DOMAIN mf_aligned[k].bars
                     ELSE /\ s \in DOMAIN mf_aligned[k].bars
                          /\ mf_aligned[k].bars[s] = LatestOf(prior)
           /\ \A s \in DOMAIN mf_aligned[k].bars :
                 /\ mf_aligned[k].bars[s].symbol = s
                 /\ mf_aligned[k].bars[s].timestamp <= mf_aligned[k].ts
    /\ mf_k >= Len(sorted_timestamps) =>
           {mf_aligned[j].ts : j \in 1..Len(mf_aligned)} = UnionTimestamps

\* a snapshot carries a forward-filled bar (older than the snapshot) next to
\* a fresh one, and another symbol is still absent in an earlier snapshot
C3_Witness ==
    \E k \in 2..Len(mf_aligned) :
        /\ \E s \in DOMAIN mf_aligned[k].bars :
              /\ mf_aligned[k].bars[s].timestamp < mf_aligned[k].ts
              /\ mf_aligned[k].bars[s] = mf_aligned[k - 1].bars[s]
        /\ \E s \in DOMAIN feeds : s \notin DOMAIN mf_aligned[1].bars

====
